---- MODULE Spec2Model ----
(***************************************************************************)
(* A model of zeekscript's formatting engine: the NodeMapper registry and  *)
(* the Formatter class hierarchy (src/zeekscript/formatter.py) and the     *)
(* line-buffering, line-wrapping OutputStream (src/zeekscript/output.py).  *)
(*                                                                         *)
(* Byte strings are sequences of one-character strings.  A Hint flag set   *)
(* is a set of flag names.  os.linesep is "\n".                            *)
(*                                                                         *)
(* The specifications share the variables:                                 *)
(*   Spec       any sequence of operations on one OutputStream;            *)
(*   SpecLine   writes that build one line of hinted chunks;               *)
(*   SpecSink   writes to a stream whose sink refuses its k-th write;      *)
(*   SpecMap    any sequence of Formatter.lookup / Formatter.register;     *)
(*   SpecNl     any sequence of Formatter._write / _write_nl calls;        *)
(*   SpecCursor any sequence of child-cursor calls on one formatter;       *)
(*   SpecFmt    formatting passes over a syntax tree.                      *)
(***************************************************************************)
EXTENDS Integers, Sequences, FiniteSets, TLC

VARIABLES
    ostream,        \* OutputStream._ostream: the bytes written to the sink
    _col,           \* OutputStream._col
    _tab_indent,    \* OutputStream._tab_indent
    _linebuffer,    \* OutputStream._linebuffer: Output(data, formatter) chunks
    _space_align,   \* OutputStream._space_align
    sink_budget,    \* the writes the sink will still accept (-1: any number)
    sink_failed,    \* whether a write to the sink has failed
    last_flush,     \* history: what the most recent _flush_line did
    written,        \* history: every byte handed to OutputStream.write, in order
    nwrites,        \* history: number of OutputStream operations performed
    _map,           \* MAP._map: symbol name -> formatter class
    registered,     \* history: the mappings made by Formatter.register
    looked,         \* history: the most recent Formatter.lookup and its result
    ncalls,         \* history: number of lookup / register calls performed
    tree,           \* the syntax tree of the script being formatted
    node_formatter, \* node.formatter of every node, by the node's path
    passes,         \* number of formatting passes completed
    raised,         \* whether the most recent pass ended with an exception
    first_pass,     \* history: what the first pass left in the stream
    format_calls,   \* history: the formatting and separator calls of the
                    \* most recent pass, in order
    fnode,          \* Formatter.node of the formatter whose methods are called
    _cidx,          \* Formatter._cidx of that formatter
    last_call       \* history: the most recent method call and what it did

streamvars == <<ostream, _col, _tab_indent, _linebuffer, _space_align,
                sink_budget, sink_failed, last_flush, written, nwrites>>
mapvars == <<_map, registered, looked, ncalls>>
fmtvars == <<tree, node_formatter, passes, raised, first_pass, format_calls>>
objvars == <<fnode, _cidx, last_call>>
vars == <<streamvars, mapvars, fmtvars, objvars>>
-----------------------------------------------------------------------------
(* Program constants of OutputStream.                                      *)

MAX_LINE_LEN == 80
MIN_LINE_ITEMS == 5
TAB_SIZE == 8
SPACE_INDENT == 4

(* Bounds of the model.                                                    *)

MaxWrites == 5
MaxIndent == 2
ShortLen == 2
LongLen == 35

-----------------------------------------------------------------------------
(* Hint flags (class Hint).  Hint.NONE is a flag of its own.               *)

NONE == "NONE"
GOOD_AFTER_LB == "GOOD_AFTER_LB"
NO_LB_BEFORE == "NO_LB_BEFORE"
NO_LB_AFTER == "NO_LB_AFTER"
ZERO_WIDTH == "ZERO_WIDTH"

HintOrNone(hints) == IF hints = {} THEN {NONE} ELSE hints

-----------------------------------------------------------------------------
(* Byte-string helpers: bytes.strip / rstrip / lstrip / splitlines.        *)

NL == <<"\n">>

Rep(c, n) == [i \in 1..n |-> c]

IsSpace(c) == c \in {" ", "\t", "\n"}

RECURSIVE rstrip(_)
rstrip(d) ==
    IF d = <<>> THEN <<>>
    ELSE IF IsSpace(d[Len(d)]) THEN rstrip(SubSeq(d, 1, Len(d) - 1))
    ELSE d

RECURSIVE lstrip(_)
lstrip(d) ==
    IF d = <<>> THEN <<>>
    ELSE IF IsSpace(Head(d)) THEN lstrip(Tail(d))
    ELSE d

strip(d) == lstrip(rstrip(d))

endswith(d, s) ==
    Len(d) >= Len(s) /\ SubSeq(d, Len(d) - Len(s) + 1, Len(d)) = s

startswith(d, s) ==
    Len(d) >= Len(s) /\ SubSeq(d, 1, Len(s)) = s

(* data.splitlines(keepends=True): cut after every line terminator.        *)
RECURSIVE splitlines(_)
splitlines(d) ==
    IF d = <<>> THEN <<>>
    ELSE LET nls == {i \in 1..Len(d) : d[i] = "\n"}
         IN  IF nls = {} THEN <<d>>
             ELSE LET k == CHOOSE i \in nls : \A j \in nls : i <= j
                  IN  <<SubSeq(d, 1, k)>> \o splitlines(SubSeq(d, k + 1, Len(d)))

RECURSIVE Flat(_)
Flat(chunks) ==
    IF chunks = <<>> THEN <<>> ELSE Head(chunks) \o Flat(Tail(chunks))

-----------------------------------------------------------------------------
(* OutputStream.  An OutputStream object is the record                     *)
(*   [ostream, col, tab_indent, linebuffer, space_align, flush]            *)
(* and every method maps such a record to the record after the call.       *)

Output(data, hints) == [data |-> data, hints |-> hints]

NoFlush == [line |-> <<>>, breaks |-> {}, auto |-> {}, hinted |-> {},
            tab_indent |-> 0, col |-> 0, out |-> <<>>,
            budget |-> -1, attempts |-> <<>>, col_flushed |-> 0]

(* budget: the number of writes the sink still accepts, -1 for a sink that  *)
(* never fails; failed: a write to the sink has raised; attempts: the data  *)
(* of every call of the sink's write made by one flush.                     *)
Unlimited == -1

OutputStream(sink) ==
    [ostream |-> sink, col |-> 0, tab_indent |-> 0, linebuffer |-> <<>>,
     space_align |-> FALSE, budget |-> Unlimited, failed |-> FALSE,
     flush |-> NoFlush]

(* An OutputStream._write that goes on writing after a failed write.        *)
WriteOnAfterFailure(st, data) ==
    IF st.budget = 0
    THEN [st EXCEPT !.failed = TRUE, !.attempts = Append(@, data)]
    ELSE [st EXCEPT !.out = @ \o data,
                    !.attempts = Append(@, data),
                    !.budget = IF @ = Unlimited THEN @ ELSE @ - 1]

(* OutputStream._write: hand the bytes to the sink.  A write the sink       *)
(* refuses raises (or exits): no statement of the flush after it is run,    *)
(* so no later _write is reached.                                           *)
_write(st, data) ==
    IF st.failed THEN st
    ELSE IF st.budget = 0
    THEN [st EXCEPT !.failed = TRUE, !.attempts = Append(@, data)]
    ELSE [st EXCEPT !.out = @ \o data,
                    !.attempts = Append(@, data),
                    !.budget = IF @ = Unlimited THEN @ ELSE @ - 1]

(* flush_tbd: commit the pending chunks.  tbd holds indices into the line.  *)
RECURSIVE TbdLen(_, _)
TbdLen(lb, tbd) ==
    IF tbd = <<>> THEN 0 ELSE Len(lb[Head(tbd)].data) + TbdLen(lb, Tail(tbd))

RECURSIVE WriteTbd(_, _, _)
WriteTbd(lb, tbd, st) ==
    IF tbd = <<>> THEN st
    ELSE WriteTbd(lb, Tail(tbd), _write(st, lb[Head(tbd)].data))

flush_tbd(lb, st) ==
    [WriteTbd(lb, st.tbd, st) EXCEPT !.col_flushed = @ + TbdLen(lb, st.tbd),
                                     !.tbd = <<>>,
                                     !.tbd_len = 0]

(* A line_items that counts the blank chunks too.                           *)
CountsBlanks(lb) == Len(lb)

(* A write_linebreak whose loop pops the head of the pending group whether  *)
(* it is blank or not.                                                      *)
DropAnyHead(lb, st) ==
    IF st.tbd # <<>>
    THEN [st EXCEPT !.tbd = Tail(@), !.tbd_len = @ - Len(lb[Head(st.tbd)].data)]
    ELSE st

(* The while loop of write_linebreak: pop pure whitespace off the head.     *)
RECURSIVE DropBlankHead(_, _)
DropBlankHead(lb, st) ==
    IF st.tbd # <<>> /\ strip(lb[Head(st.tbd)].data) = <<>>
    THEN DropBlankHead(lb, [st EXCEPT !.tbd = Tail(@),
                                      !.tbd_len = @ - Len(lb[Head(st.tbd)].data)])
    ELSE st

(* A write_linebreak that leaves out the alignment spaces.                  *)
BreakWithoutAlign(lb, tab_indent, st) ==
    LET s1 == _write(st, NL)
        s2 == _write(s1, Rep("\t", tab_indent))
        s4 == [s2 EXCEPT !.col_flushed = tab_indent * TAB_SIZE + SPACE_INDENT]
        s5 == DropBlankHead(lb, s4)
    IN  [s5 EXCEPT !.breaks = @ \cup (IF s5.tbd = <<>> THEN {} ELSE {Head(s5.tbd)})]

write_linebreak(lb, tab_indent, st) ==
    LET s1 == _write(st, NL)
        s2 == _write(s1, Rep("\t", tab_indent))
        s3 == _write(s2, Rep(" ", SPACE_INDENT))
        s4 == [s3 EXCEPT !.col_flushed = tab_indent * TAB_SIZE + SPACE_INDENT]
        s5 == DropBlankHead(lb, s4)
    IN  [s5 EXCEPT !.breaks = @ \cup (IF s5.tbd = <<>> THEN {} ELSE {Head(s5.tbd)})]

all_blank(lb, tbd) == \A k \in 1..Len(tbd) : Len(strip(lb[tbd[k]].data)) = 0

line_items(lb) == Cardinality({i \in 1..Len(lb) : strip(lb[i].data) # <<>>})

(* One iteration of the main loop of _flush_line, for chunk i of the line.  *)
FlushStep(lb, col, tab_indent, i, st) ==
    LET out == lb[i]
        s1 == [st EXCEPT !.tbd = Append(@, i),
                         !.tbd_len = IF ZERO_WIDTH \notin out.hints
                                     THEN @ + Len(out.data) ELSE @]
    IN  IF strip(out.data) = <<>> THEN s1
        ELSE IF NO_LB_AFTER \in out.hints THEN s1
        ELSE IF i < Len(lb) /\ NO_LB_BEFORE \in lb[i + 1].hints THEN s1
        ELSE IF NO_LB_BEFORE \in out.hints
                /\ all_blank(lb, SubSeq(s1.tbd, 1, Len(s1.tbd) - 1)) THEN s1
        ELSE IF GOOD_AFTER_LB \in out.hints /\ col > MAX_LINE_LEN
             THEN LET s2 == write_linebreak(lb, tab_indent, s1)
                  IN  flush_tbd(lb, [s2 EXCEPT !.using_break_hints = TRUE,
                                               !.hinted = @ \cup {i}])
        ELSE IF ~s1.using_break_hints
                /\ s1.col_flushed + s1.tbd_len > MAX_LINE_LEN
                /\ line_items(lb) >= MIN_LINE_ITEMS
             THEN flush_tbd(lb, [write_linebreak(lb, tab_indent, s1)
                                   EXCEPT !.auto = @ \cup {i}])
        ELSE flush_tbd(lb, s1)

RECURSIVE FlushLoop(_, _, _, _, _)
FlushLoop(lb, col, tab_indent, i, st) ==
    IF i > Len(lb) THEN st
    ELSE FlushLoop(lb, col, tab_indent, i + 1, FlushStep(lb, col, tab_indent, i, st))

(* OutputStream._flush_line.  The flush field records, for the properties,  *)
(* the line flushed, the chunks a break was written directly before         *)
(* (breaks), the chunks at which an automatic (auto) or an advisory         *)
(* (hinted) break was decided, the bytes the flush sent to the sink and     *)
(* the final value of col_flushed.                                          *)
_flush_line(os) ==
    LET lb == os.linebuffer
        st0 == [out |-> <<>>, col_flushed |-> 0, tbd |-> <<>>, tbd_len |-> 0,
                using_break_hints |-> FALSE, breaks |-> {}, auto |-> {},
                hinted |-> {}, budget |-> os.budget, failed |-> FALSE,
                attempts |-> <<>>]
        Flushed(st2) ==
            [os EXCEPT !.ostream = @ \o st2.out,
                       !.linebuffer = IF st2.failed THEN @ ELSE <<>>,
                       !.col = IF st2.failed THEN @ ELSE 0,
                       !.budget = st2.budget,
                       !.failed = st2.failed,
                       !.flush = [line |-> lb, breaks |-> st2.breaks,
                                  auto |-> st2.auto, hinted |-> st2.hinted,
                                  tab_indent |-> os.tab_indent, col |-> os.col,
                                  out |-> st2.out, budget |-> os.budget,
                                  attempts |-> st2.attempts,
                                  col_flushed |-> st2.col_flushed]]
    IN  Flushed(flush_tbd(lb, FlushLoop(lb, os.col, os.tab_indent, 1, st0)))

(* The body of the for loop of OutputStream.write, for one chunk.           *)
WriteChunk(os, chunk0, hints) ==
    LET chunk == IF endswith(chunk0, NL) THEN rstrip(chunk0) \o NL ELSE chunk0
        os1 == [os EXCEPT !.linebuffer = Append(@, Output(chunk, hints)),
                          !.col = @ + Len(chunk)]
    IN  IF os.failed THEN os
        ELSE IF endswith(chunk, NL) THEN _flush_line(os1) ELSE os1

RECURSIVE WriteChunks(_, _, _)
WriteChunks(os, chunks, hints) ==
    IF chunks = <<>> THEN os
    ELSE WriteChunks(WriteChunk(os, Head(chunks), hints), Tail(chunks), hints)

(* OutputStream.write(data, formatter); the formatter's hints are read.     *)
write(os, data, hints) == WriteChunks(os, splitlines(data), hints)

(* OutputStream.write_tab_indent(formatter), formatter.indent = indent.     *)
write_tab_indent(os, indent, hints) ==
    write([os EXCEPT !.tab_indent = indent], Rep("\t", indent), hints)

(* OutputStream.write_space_align(formatter).                               *)
write_space_align(os, hints) ==
    IF os.space_align THEN write(os, Rep(" ", 4), hints) ELSE os

set_space_align(os, enable) == [os EXCEPT !.space_align = enable]

get_column(os) == os.col

-----------------------------------------------------------------------------
(* Strings.  Node types, tokens and class names are written as strings;     *)
(* Chars gives the characters of the strings the model uses, for the code   *)
(* that works on characters (str.split, str.title, a token's bytes).        *)

Chars(s) ==
    CASE s = "" -> <<>>
      [] s = "##<d" -> <<"#", "#", "<", "d">>
      [] s = "#c" -> <<"#", "c">>
      [] s = "&&" -> <<"&", "&">>
      [] s = "++" -> <<"+", "+">>
      [] s = "--" -> <<"-", "-">>
      [] s = "?$" -> <<"?", "$">>
      [] s = "AttrFormatter" -> <<"A", "t", "t", "r", "F", "o", "r", "m", "a", "t", "t", "e", "r">>
      [] s = "CaptureListFormatter" -> <<"C", "a", "p", "t", "u", "r", "e", "L", "i", "s", "t", "F", "o", "r", "m", "a", "t", "t", "e", "r">>
      [] s = "CaseListFormatter" -> <<"C", "a", "s", "e", "L", "i", "s", "t", "F", "o", "r", "m", "a", "t", "t", "e", "r">>
      [] s = "CaseTypeListFormatter" -> <<"C", "a", "s", "e", "T", "y", "p", "e", "L", "i", "s", "t", "F", "o", "r", "m", "a", "t", "t", "e", "r">>
      [] s = "CommentFormatter" -> <<"C", "o", "m", "m", "e", "n", "t", "F", "o", "r", "m", "a", "t", "t", "e", "r">>
      [] s = "EnumBodyFormatter" -> <<"E", "n", "u", "m", "B", "o", "d", "y", "F", "o", "r", "m", "a", "t", "t", "e", "r">>
      [] s = "EventHdrFormatter" -> <<"E", "v", "e", "n", "t", "H", "d", "r", "F", "o", "r", "m", "a", "t", "t", "e", "r">>
      [] s = "ExportDeclFormatter" -> <<"E", "x", "p", "o", "r", "t", "D", "e", "c", "l", "F", "o", "r", "m", "a", "t", "t", "e", "r">>
      [] s = "ExprFormatter" -> <<"E", "x", "p", "r", "F", "o", "r", "m", "a", "t", "t", "e", "r">>
      [] s = "ExprListFormatter" -> <<"E", "x", "p", "r", "L", "i", "s", "t", "F", "o", "r", "m", "a", "t", "t", "e", "r">>
      [] s = "FormalArgFormatter" -> <<"F", "o", "r", "m", "a", "l", "A", "r", "g", "F", "o", "r", "m", "a", "t", "t", "e", "r">>
      [] s = "FormalArgsFormatter" -> <<"F", "o", "r", "m", "a", "l", "A", "r", "g", "s", "F", "o", "r", "m", "a", "t", "t", "e", "r">>
      [] s = "Formatter" -> <<"F", "o", "r", "m", "a", "t", "t", "e", "r">>
      [] s = "FuncBodyFormatter" -> <<"F", "u", "n", "c", "B", "o", "d", "y", "F", "o", "r", "m", "a", "t", "t", "e", "r">>
      [] s = "FuncDeclFormatter" -> <<"F", "u", "n", "c", "D", "e", "c", "l", "F", "o", "r", "m", "a", "t", "t", "e", "r">>
      [] s = "FuncHdrFormatter" -> <<"F", "u", "n", "c", "H", "d", "r", "F", "o", "r", "m", "a", "t", "t", "e", "r">>
      [] s = "FuncHdrVariantFormatter" -> <<"F", "u", "n", "c", "H", "d", "r", "V", "a", "r", "i", "a", "n", "t", "F", "o", "r", "m", "a", "t", "t", "e", "r">>
      [] s = "FuncParamsFormatter" -> <<"F", "u", "n", "c", "P", "a", "r", "a", "m", "s", "F", "o", "r", "m", "a", "t", "t", "e", "r">>
      [] s = "GOOD_AFTER_LB" -> <<"G", "O", "O", "D", "_", "A", "F", "T", "E", "R", "_", "L", "B">>
      [] s = "GlobalDeclFormatter" -> <<"G", "l", "o", "b", "a", "l", "D", "e", "c", "l", "F", "o", "r", "m", "a", "t", "t", "e", "r">>
      [] s = "Hint" -> <<"H", "i", "n", "t">>
      [] s = "InitFormatter" -> <<"I", "n", "i", "t", "F", "o", "r", "m", "a", "t", "t", "e", "r">>
      [] s = "InitializerFormatter" -> <<"I", "n", "i", "t", "i", "a", "l", "i", "z", "e", "r", "F", "o", "r", "m", "a", "t", "t", "e", "r">>
      [] s = "LineFormatter" -> <<"L", "i", "n", "e", "F", "o", "r", "m", "a", "t", "t", "e", "r">>
      [] s = "MinorCommentFormatter" -> <<"M", "i", "n", "o", "r", "C", "o", "m", "m", "e", "n", "t", "F", "o", "r", "m", "a", "t", "t", "e", "r">>
      [] s = "ModuleDeclFormatter" -> <<"M", "o", "d", "u", "l", "e", "D", "e", "c", "l", "F", "o", "r", "m", "a", "t", "t", "e", "r">>
      [] s = "NONE" -> <<"N", "O", "N", "E">>
      [] s = "NO_LB_AFTER" -> <<"N", "O", "_", "L", "B", "_", "A", "F", "T", "E", "R">>
      [] s = "NO_LB_BEFORE" -> <<"N", "O", "_", "L", "B", "_", "B", "E", "F", "O", "R", "E">>
      [] s = "NlFormatter" -> <<"N", "l", "F", "o", "r", "m", "a", "t", "t", "e", "r">>
      [] s = "NodeMapper" -> <<"N", "o", "d", "e", "M", "a", "p", "p", "e", "r">>
      [] s = "None" -> <<"N", "o", "n", "e">>
      [] s = "NullFormatter" -> <<"N", "u", "l", "l", "F", "o", "r", "m", "a", "t", "t", "e", "r">>
      [] s = "PreprocDirectiveFormatter" -> <<"P", "r", "e", "p", "r", "o", "c", "D", "i", "r", "e", "c", "t", "i", "v", "e", "F", "o", "r", "m", "a", "t", "t", "e", "r">>
      [] s = "RedefEnumDeclFormatter" -> <<"R", "e", "d", "e", "f", "E", "n", "u", "m", "D", "e", "c", "l", "F", "o", "r", "m", "a", "t", "t", "e", "r">>
      [] s = "RedefRecordDeclFormatter" -> <<"R", "e", "d", "e", "f", "R", "e", "c", "o", "r", "d", "D", "e", "c", "l", "F", "o", "r", "m", "a", "t", "t", "e", "r">>
      [] s = "STMT" -> <<"S", "T", "M", "T">>
      [] s = "SpaceSeparatedFormatter" -> <<"S", "p", "a", "c", "e", "S", "e", "p", "a", "r", "a", "t", "e", "d", "F", "o", "r", "m", "a", "t", "t", "e", "r">>
      [] s = "StmtFormatter" -> <<"S", "t", "m", "t", "F", "o", "r", "m", "a", "t", "t", "e", "r">>
      [] s = "TypeDeclFormatter" -> <<"T", "y", "p", "e", "D", "e", "c", "l", "F", "o", "r", "m", "a", "t", "t", "e", "r">>
      [] s = "TypeFormatter" -> <<"T", "y", "p", "e", "F", "o", "r", "m", "a", "t", "t", "e", "r">>
      [] s = "TypeSpecFormatter" -> <<"T", "y", "p", "e", "S", "p", "e", "c", "F", "o", "r", "m", "a", "t", "t", "e", "r">>
      [] s = "TypedInitializerFormatter" -> <<"T", "y", "p", "e", "d", "I", "n", "i", "t", "i", "a", "l", "i", "z", "e", "r", "F", "o", "r", "m", "a", "t", "t", "e", "r">>
      [] s = "ZERO_WIDTH" -> <<"Z", "E", "R", "O", "_", "W", "I", "D", "T", "H">>
      [] s = "ZeekygenCommentFormatter" -> <<"Z", "e", "e", "k", "y", "g", "e", "n", "C", "o", "m", "m", "e", "n", "t", "F", "o", "r", "m", "a", "t", "t", "e", "r">>
      [] s = "ZeekygenPrevCommentFormatter" -> <<"Z", "e", "e", "k", "y", "g", "e", "n", "P", "r", "e", "v", "C", "o", "m", "m", "e", "n", "t", "F", "o", "r", "m", "a", "t", "t", "e", "r">>
      [] s = "_child_is_curly_stmt" -> <<"_", "c", "h", "i", "l", "d", "_", "i", "s", "_", "c", "u", "r", "l", "y", "_", "s", "t", "m", "t">>
      [] s = "_children_remaining" -> <<"_", "c", "h", "i", "l", "d", "r", "e", "n", "_", "r", "e", "m", "a", "i", "n", "i", "n", "g">>
      [] s = "_format_child" -> <<"_", "f", "o", "r", "m", "a", "t", "_", "c", "h", "i", "l", "d">>
      [] s = "_format_child_impl" -> <<"_", "f", "o", "r", "m", "a", "t", "_", "c", "h", "i", "l", "d", "_", "i", "m", "p", "l">>
      [] s = "_format_child_range" -> <<"_", "f", "o", "r", "m", "a", "t", "_", "c", "h", "i", "l", "d", "_", "r", "a", "n", "g", "e">>
      [] s = "_format_children" -> <<"_", "f", "o", "r", "m", "a", "t", "_", "c", "h", "i", "l", "d", "r", "e", "n">>
      [] s = "_format_token" -> <<"_", "f", "o", "r", "m", "a", "t", "_", "t", "o", "k", "e", "n">>
      [] s = "_get_child" -> <<"_", "g", "e", "t", "_", "c", "h", "i", "l", "d">>
      [] s = "_get_child_name" -> <<"_", "g", "e", "t", "_", "c", "h", "i", "l", "d", "_", "n", "a", "m", "e">>
      [] s = "_get_child_token" -> <<"_", "g", "e", "t", "_", "c", "h", "i", "l", "d", "_", "t", "o", "k", "e", "n">>
      [] s = "_get_child_type" -> <<"_", "g", "e", "t", "_", "c", "h", "i", "l", "d", "_", "t", "y", "p", "e">>
      [] s = "_is_binary_addition" -> <<"_", "i", "s", "_", "b", "i", "n", "a", "r", "y", "_", "a", "d", "d", "i", "t", "i", "o", "n">>
      [] s = "_is_binary_boolean" -> <<"_", "i", "s", "_", "b", "i", "n", "a", "r", "y", "_", "b", "o", "o", "l", "e", "a", "n">>
      [] s = "_next_child" -> <<"_", "n", "e", "x", "t", "_", "c", "h", "i", "l", "d">>
      [] s = "_write" -> <<"_", "w", "r", "i", "t", "e">>
      [] s = "_write_nl" -> <<"_", "w", "r", "i", "t", "e", "_", "n", "l">>
      [] s = "_write_sp" -> <<"_", "w", "r", "i", "t", "e", "_", "s", "p">>
      [] s = "add" -> <<"a", "d", "d">>
      [] s = "and" -> <<"a", "n", "d">>
      [] s = "assert" -> <<"a", "s", "s", "e", "r", "t">>
      [] s = "attr_list" -> <<"a", "t", "t", "r", "_", "l", "i", "s", "t">>
      [] s = "binary" -> <<"b", "i", "n", "a", "r", "y">>
      [] s = "break" -> <<"b", "r", "e", "a", "k">>
      [] s = "c d" -> <<"c", " ", "d">>
      [] s = "capture" -> <<"c", "a", "p", "t", "u", "r", "e">>
      [] s = "capture_list" -> <<"c", "a", "p", "t", "u", "r", "e", "_", "l", "i", "s", "t">>
      [] s = "case" -> <<"c", "a", "s", "e">>
      [] s = "case_list" -> <<"c", "a", "s", "e", "_", "l", "i", "s", "t">>
      [] s = "chain" -> <<"c", "h", "a", "i", "n">>
      [] s = "child" -> <<"c", "h", "i", "l", "d">>
      [] s = "children" -> <<"c", "h", "i", "l", "d", "r", "e", "n">>
      [] s = "const" -> <<"c", "o", "n", "s", "t">>
      [] s = "const_decl" -> <<"c", "o", "n", "s", "t", "_", "d", "e", "c", "l">>
      [] s = "constant" -> <<"c", "o", "n", "s", "t", "a", "n", "t">>
      [] s = "copy" -> <<"c", "o", "p", "y">>
      [] s = "curly" -> <<"c", "u", "r", "l", "y">>
      [] s = "decl" -> <<"d", "e", "c", "l">>
      [] s = "delete" -> <<"d", "e", "l", "e", "t", "e">>
      [] s = "elif" -> <<"e", "l", "i", "f">>
      [] s = "else" -> <<"e", "l", "s", "e">>
      [] s = "else_if" -> <<"e", "l", "s", "e", "_", "i", "f">>
      [] s = "event" -> <<"e", "v", "e", "n", "t">>
      [] s = "expr" -> <<"e", "x", "p", "r">>
      [] s = "expr__list" -> <<"e", "x", "p", "r", "_", "_", "l", "i", "s", "t">>
      [] s = "expr_list" -> <<"e", "x", "p", "r", "_", "l", "i", "s", "t">>
      [] s = "fallthrough" -> <<"f", "a", "l", "l", "t", "h", "r", "o", "u", "g", "h">>
      [] s = "false" -> <<"f", "a", "l", "s", "e">>
      [] s = "foo_bar" -> <<"f", "o", "o", "_", "b", "a", "r">>
      [] s = "for" -> <<"f", "o", "r">>
      [] s = "formatter" -> <<"f", "o", "r", "m", "a", "t", "t", "e", "r">>
      [] s = "func" -> <<"f", "u", "n", "c">>
      [] s = "function" -> <<"f", "u", "n", "c", "t", "i", "o", "n">>
      [] s = "global_decl" -> <<"g", "l", "o", "b", "a", "l", "_", "d", "e", "c", "l">>
      [] s = "hints" -> <<"h", "i", "n", "t", "s">>
      [] s = "hook" -> <<"h", "o", "o", "k">>
      [] s = "id" -> <<"i", "d">>
      [] s = "if" -> <<"i", "f">>
      [] s = "in" -> <<"i", "n">>
      [] s = "index_slice" -> <<"i", "n", "d", "e", "x", "_", "s", "l", "i", "c", "e">>
      [] s = "initializer" -> <<"i", "n", "i", "t", "i", "a", "l", "i", "z", "e", "r">>
      [] s = "interval" -> <<"i", "n", "t", "e", "r", "v", "a", "l">>
      [] s = "local" -> <<"l", "o", "c", "a", "l">>
      [] s = "minor_comment" -> <<"m", "i", "n", "o", "r", "_", "c", "o", "m", "m", "e", "n", "t">>
      [] s = "name" -> <<"n", "a", "m", "e">>
      [] s = "next" -> <<"n", "e", "x", "t">>
      [] s = "nl" -> <<"n", "l">>
      [] s = "node" -> <<"n", "o", "d", "e">>
      [] s = "not" -> <<"n", "o", "t">>
      [] s = "nullnode" -> <<"n", "u", "l", "l", "n", "o", "d", "e">>
      [] s = "option_decl" -> <<"o", "p", "t", "i", "o", "n", "_", "d", "e", "c", "l">>
      [] s = "preproc_directive" -> <<"p", "r", "e", "p", "r", "o", "c", "_", "d", "i", "r", "e", "c", "t", "i", "v", "e">>
      [] s = "print" -> <<"p", "r", "i", "n", "t">>
      [] s = "property" -> <<"p", "r", "o", "p", "e", "r", "t", "y">>
      [] s = "raise" -> <<"r", "a", "i", "s", "e">>
      [] s = "redef_decl" -> <<"r", "e", "d", "e", "f", "_", "d", "e", "c", "l">>
      [] s = "return" -> <<"r", "e", "t", "u", "r", "n">>
      [] s = "set" -> <<"s", "e", "t">>
      [] s = "source_file" -> <<"s", "o", "u", "r", "c", "e", "_", "f", "i", "l", "e">>
      [] s = "stmt" -> <<"s", "t", "m", "t">>
      [] s = "stmt_list" -> <<"s", "t", "m", "t", "_", "l", "i", "s", "t">>
      [] s = "switch" -> <<"s", "w", "i", "t", "c", "h">>
      [] s = "timeout" -> <<"t", "i", "m", "e", "o", "u", "t">>
      [] s = "token" -> <<"t", "o", "k", "e", "n">>
      [] s = "true" -> <<"t", "r", "u", "e">>
      [] s = "var" -> <<"v", "a", "r">>
      [] s = "when" -> <<"w", "h", "e", "n">>
      [] s = "while" -> <<"w", "h", "i", "l", "e">>
      [] s = "zeekygen_head_comment" -> <<"z", "e", "e", "k", "y", "g", "e", "n", "_", "h", "e", "a", "d", "_", "c", "o", "m", "m", "e", "n", "t">>
      [] s = "zeekygen_next_comment" -> <<"z", "e", "e", "k", "y", "g", "e", "n", "_", "n", "e", "x", "t", "_", "c", "o", "m", "m", "e", "n", "t">>
      [] s = "zeekygen_prev_comment" -> <<"z", "e", "e", "k", "y", "g", "e", "n", "_", "p", "r", "e", "v", "_", "c", "o", "m", "m", "e", "n", "t">>
      [] s = "||" -> <<"|", "|">>
      [] OTHER -> <<s>>

-----------------------------------------------------------------------------
(* NodeMapper.                                                              *)

(* The classes of module zeekscript.formatter (inspect.getmembers with      *)
(* inspect.isclass).                                                        *)
ModuleClasses ==
    {"AttrFormatter", "CaptureListFormatter", "CaseListFormatter", "CaseTypeListFormatter",
     "CommentFormatter", "EnumBodyFormatter", "EventHdrFormatter", "ExportDeclFormatter",
     "ExprFormatter", "ExprListFormatter", "FormalArgFormatter", "FormalArgsFormatter",
     "Formatter", "FuncBodyFormatter", "FuncDeclFormatter", "FuncHdrFormatter",
     "FuncHdrVariantFormatter", "FuncParamsFormatter", "GlobalDeclFormatter", "Hint",
     "InitFormatter", "InitializerFormatter", "LineFormatter", "MinorCommentFormatter",
     "ModuleDeclFormatter", "NlFormatter", "NodeMapper", "NullFormatter",
     "PreprocDirectiveFormatter", "RedefEnumDeclFormatter", "RedefRecordDeclFormatter", "SpaceSeparatedFormatter",
     "StmtFormatter", "TypeDeclFormatter", "TypeFormatter", "TypeSpecFormatter",
     "TypedInitializerFormatter", "ZeekygenCommentFormatter", "ZeekygenPrevCommentFormatter"}

(* The Formatter.register calls at the end of the module.                   *)
ExplicitMap ==
    [k \in {"const_decl", "global_decl", "option_decl", "redef_decl", "func",
            "hook", "event", "capture", "attr_list", "interval",
            "zeekygen_head_comment", "zeekygen_next_comment", "nullnode"} |->
        CASE k \in {"const_decl", "global_decl", "option_decl", "redef_decl"}
                 -> "GlobalDeclFormatter"
          [] k \in {"func", "hook", "event"} -> "FuncHdrVariantFormatter"
          [] k \in {"capture", "attr_list", "interval"} -> "SpaceSeparatedFormatter"
          [] k \in {"zeekygen_head_comment", "zeekygen_next_comment"}
                 -> "ZeekygenCommentFormatter"
          [] k = "nullnode" -> "NullFormatter"]

LowerCase == <<"a", "b", "c", "d", "e", "f", "g", "h", "i", "j", "k", "l", "m",
               "n", "o", "p", "q", "r", "s", "t", "u", "v", "w", "x", "y", "z">>
UpperCase == <<"A", "B", "C", "D", "E", "F", "G", "H", "I", "J", "K", "L", "M",
               "N", "O", "P", "Q", "R", "S", "T", "U", "V", "W", "X", "Y", "Z">>

IsLower(c) == \E i \in 1..26 : LowerCase[i] = c
IsUpper(c) == \E i \in 1..26 : UpperCase[i] = c
ToUpper(c) == IF IsLower(c) THEN UpperCase[CHOOSE i \in 1..26 : LowerCase[i] = c] ELSE c
ToLower(c) == IF IsUpper(c) THEN LowerCase[CHOOSE i \in 1..26 : UpperCase[i] = c] ELSE c

(* str.title(): a cased character is upper-cased when it follows an         *)
(* uncased one (or starts the string) and lower-cased otherwise.            *)
RECURSIVE TitleFrom(_, _)
TitleFrom(d, prev_cased) ==
    IF d = <<>> THEN <<>>
    ELSE LET c == Head(d)
             cased == IsLower(c) \/ IsUpper(c)
         IN  <<IF ~cased THEN c
               ELSE IF prev_cased THEN ToLower(c) ELSE ToUpper(c)>>
             \o TitleFrom(Tail(d), cased)

title(d) == TitleFrom(d, FALSE)

(* str.split('_').                                                          *)
RECURSIVE split(_)
split(d) ==
    LET us == {i \in 1..Len(d) : d[i] = "_"}
    IN  IF us = {} THEN <<d>>
        ELSE LET k == CHOOSE i \in us : \A j \in us : i <= j
             IN  <<SubSeq(d, 1, k - 1)>> \o split(SubSeq(d, k + 1, Len(d)))

(* The class name _find_class derives: "module_decl" -> ModuleDeclFormatter *)
derived(symbol_name) ==
    LET name_parts(parts) == [i \in 1..Len(parts) |-> title(parts[i])]
    IN  Flat(name_parts(split(Chars(symbol_name)))) \o Chars("Formatter")

(* The characters of the class names.                                       *)
ClassName == [c \in ModuleClasses |-> Chars(c)]

(* NodeMapper._find_class: the mapping is added when such a class exists.   *)
_find_class(map, symbol_name) ==
    LET Named(name) == {c \in ModuleClasses : ClassName[c] = name}
        Cached(classes) ==
            IF classes # {}
            THEN (symbol_name :> (CHOOSE c \in classes : TRUE)) @@ map
            ELSE map
    IN  Cached(Named(derived(symbol_name)))

(* NodeMapper.register.                                                     *)
register(map, symbol_name, klass) == (symbol_name :> klass) @@ map

(* A get() that returns the default after _find_class without looking at    *)
(* the map again.                                                           *)
GetWithoutSecondLook(map, symbol_name) ==
    IF symbol_name \in DOMAIN map
    THEN [cls |-> map[symbol_name], map |-> map]
    ELSE [cls |-> "Formatter", map |-> _find_class(map, symbol_name)]

(* NodeMapper.get: the class and the map after the call.                    *)
get(map, symbol_name) ==
    IF symbol_name \in DOMAIN map
    THEN [cls |-> map[symbol_name], map |-> map]
    ELSE LET SecondLook(map1) ==
                 IF symbol_name \in DOMAIN map1
                 THEN [cls |-> map1[symbol_name], map |-> map1]
                 ELSE [cls |-> "Formatter", map |-> map1]
         IN  SecondLook(_find_class(map, symbol_name))

(* A lookup that goes by the type of any node, named or not.                *)
LookupAnyNode(map, node) == get(map, node.type)

(* Formatter.lookup(node).                                                  *)
lookup(map, node) ==
    IF ~node.is_named THEN [cls |-> "Formatter", map |-> map]
    ELSE get(map, node.type)

-----------------------------------------------------------------------------
(* Syntax trees.  A node is the record                                      *)
(*   [type, is_named, text, children, prev_cst_siblings, next_cst_siblings] *)
(* where text is script[start_byte:end_byte], children are the grammar's    *)
(* children and the two sibling fields are the comments and newlines        *)
(* attached before and after the node.  A node is referred to by its path   *)
(* from the root: the sequence of positions taken in cst_children.          *)

None == "None"

Node(type, is_named, text, children) ==
    [type |-> type, is_named |-> is_named, text |-> text, children |-> children,
     prev_cst_siblings |-> <<>>, next_cst_siblings |-> <<>>]

(* Node.name() and Node.token().                                            *)
name(node) == IF node.is_named THEN node.type ELSE None
token(node) == IF ~node.is_named THEN node.type ELSE None

is_nl(node) == node.type = "nl"
is_zeekygen_prev_comment(node) == node.type = "zeekygen_prev_comment"

(* The children of a node with the attached comments and newlines in place: *)
(* the sequence prev_cst_sibling / next_cst_sibling walk along.             *)
cst_children(node) ==
    Flat([k \in 1..Len(node.children) |->
            node.children[k].prev_cst_siblings \o <<node.children[k]>>
            \o node.children[k].next_cst_siblings])

(* The position in cst_children(node) of node.children[k].                  *)
cst_index(node, k) ==
    Len(cst_children([node EXCEPT !.children = SubSeq(@, 1, k - 1)]))
    + Len(node.children[k].prev_cst_siblings) + 1

RECURSIVE NodeAt(_, _)
NodeAt(root, path) ==
    IF path = <<>> THEN root
    ELSE NodeAt(cst_children(root)[Head(path)], Tail(path))

Front(path) == SubSeq(path, 1, Len(path) - 1)

(* node.parent, as a sequence of zero or one paths.                         *)
parent(path) == IF path = <<>> THEN <<>> ELSE <<Front(path)>>

(* Node.has_property(predicate) for the predicate                           *)
(* lambda n: n.children[0].token() == tok; an IndexError gives False.       *)
has_property(node, tok) ==
    Len(node.children) >= 1 /\ token(node.children[1]) = tok

(* Node.find_prev_cst_sibling(lambda n: not n.is_nl()): the position of the *)
(* nearest earlier sibling that is no newline, 0 when there is none.        *)
find_prev_cst_sibling(sibs, pos) ==
    LET found == {j \in 1..(pos - 1) : ~is_nl(sibs[j])}
    IN  IF found = {} THEN 0 ELSE CHOOSE j \in found : \A i \in found : i <= j

-----------------------------------------------------------------------------
(* Formatter.  A formatter instance is the record                           *)
(*   [script, path, node, sibs, pos, indent, hints, cls]                    *)
(* (sibs and pos: the node's CST siblings and its place among them).  What  *)
(* a call may change outside the instance is threaded through the record   *)
(*   [os, map, nf, err]                                                     *)
(* os: the OutputStream; map: MAP._map; nf: node.formatter of the nodes     *)
(* formatted so far, by path; err: an AttributeError is propagating.  The   *)
(* tests a format() method makes read the instance's node, its _cidx, its   *)
(* local variables and the formatters of the node's ancestors, none of      *)
(* which a child's format() changes.  A format() method is therefore run in *)
(* two steps: its control flow is followed with the record                  *)
(*   [cidx, vars, nf, acts, err]                                            *)
(* (cidx: self._cidx; vars: the local variables; acts: the calls made so    *)
(* far that write or format a child), and then the calls in acts are made   *)
(* in order on the record above.                                            *)

NoSep == <<>>
NoVars == [v \in {"curly", "hints"} |-> "F"]

(* Formatter.__init__ and the __init__ of the comment classes: the hints    *)
(* of the new instance.                                                     *)
CommentClasses == {"CommentFormatter", "MinorCommentFormatter",
                   "ZeekygenCommentFormatter", "ZeekygenPrevCommentFormatter"}

Formatter__init__(cls, hints) ==
    IF cls \in CommentClasses
    THEN HintOrNone(hints) \cup {ZERO_WIDTH}
    ELSE HintOrNone(hints)

(* OutputStream.use_space_align(enable).                                    *)
use_space_align(os, enable) == set_space_align(os, enable)

(* Formatter._write_indent: the state after the call and the value returned. *)
_write_indent(self, s) ==
    IF get_column(s.os) = 0
    THEN [s |-> [s EXCEPT !.os = write_space_align(
                                    write_tab_indent(@, self.indent, self.hints),
                                    self.hints)],
          r |-> TRUE]
    ELSE [s |-> s, r |-> FALSE]

(* Formatter._write.                                                        *)
Formatter_write(self, s, data) ==
    LET Indented(ind) ==
            [ind.s EXCEPT !.os = write(@, IF ind.r THEN lstrip(data) ELSE data,
                                       self.hints)]
    IN  Indented(IF ~startswith(data, NL) THEN _write_indent(self, s)
                 ELSE [s |-> s, r |-> FALSE])

_write_sp(self, s, num) == Formatter_write(self, s, Rep(" ", num))

(* A _write_nl that writes the terminators whatever the column.            *)
WriteNlAlways(self, s, num, force, is_midline) ==
    [Formatter_write(self, s, Rep("\n", num))
        EXCEPT !.os = use_space_align(@, is_midline)]

(* Formatter._write_nl.                                                     *)
_write_nl(self, s, num, force, is_midline) ==
    IF get_column(s.os) = 0 /\ ~force
    THEN [s EXCEPT !.os = use_space_align(@, is_midline)]
    ELSE LET s1 == Formatter_write(self, s, Rep("\n", num))
         IN  [s1 EXCEPT !.os = use_space_align(@, is_midline)]

_format_token(self, s) == Formatter_write(self, s, self.node.text)

_children_remaining(self, st) ==
    IF st.cidx >= Len(self.node.children) THEN 0
    ELSE Len(self.node.children) - st.cidx

(* Formatter._get_child: zero or one nodes.  Python indexing: a negative    *)
(* index counts from the end.                                               *)
_get_child(self, st, offset, absolute) ==
    LET n == Len(self.node.children)
        idx == (IF absolute THEN 0 ELSE st.cidx) + offset
    IN  IF idx >= 0 /\ idx < n THEN <<self.node.children[idx + 1]>>
        ELSE IF idx < 0 /\ idx >= -n THEN <<self.node.children[n + idx + 1]>>
        ELSE <<>>

_get_child_type(self, st, offset, absolute) ==
    LET c == _get_child(self, st, offset, absolute)
    IN  IF c = <<>> THEN None ELSE c[1].type

_get_child_name(self, st, offset, absolute) ==
    LET c == _get_child(self, st, offset, absolute)
    IN  IF c = <<>> THEN None ELSE name(c[1])

_get_child_token(self, st, offset, absolute) ==
    LET c == _get_child(self, st, offset, absolute)
    IN  IF c = <<>> THEN None ELSE token(c[1])

(* ExprFormatter._is_binary_boolean and _is_binary_addition, for the        *)
(* formatter of the given node.                                             *)
_is_binary_boolean(node) ==
    /\ Len(node.children) = 3
    /\ token(node.children[2]) \in {"||", "&&"}

_is_binary_addition(node) ==
    /\ Len(node.children) = 3
    /\ node.children[2].type = "+"

formatter_predicate(pred, node) ==
    IF pred = "_is_binary_boolean" THEN _is_binary_boolean(node)
    ELSE _is_binary_addition(node)

(* An _is_expr_chain_of that looks at the expression only, not at the ones  *)
(* above it.                                                                *)
ChainOfOne(script, nf, ref, pred) ==
    ref # <<>> /\ formatter_predicate(pred, NodeAt(script, ref[1]))

(* ExprFormatter._is_expr_chain_of: walk up from the node at path while the *)
(* node's formatter is an ExprFormatter that satisfies the predicate.       *)
RECURSIVE _is_expr_chain_of(_, _, _, _)
_is_expr_chain_of(script, nf, ref, pred) ==
    IF ref = <<>> THEN FALSE
    ELSE LET path == ref[1]
             isexpr == path \in DOMAIN nf /\ nf[path].cls = "ExprFormatter"
         IN  IF isexpr /\ formatter_predicate(pred, NodeAt(script, path))
             THEN _is_expr_chain_of(script, nf, parent(path), pred)
             ELSE ~isexpr

(* StmtFormatter._child_is_curly_stmt and the else-if test of               *)
(* StmtFormatter.format: "E" when they raise an AttributeError.             *)
ChildHasProperty(self, st, tok) ==
    LET c == _get_child(self, st, 0, FALSE)
    IN  IF c = <<>> THEN "E"
        ELSE IF has_property(c[1], tok) THEN "T" ELSE "F"

B(b) == IF b THEN "T" ELSE "F"

(* The conditions a format() method tests, as data; Eval gives "T", "F" or  *)
(* "E" (the test raised an AttributeError).                                 *)
True == [c |-> "true"]
False == [c |-> "false"]
Var(v) == [c |-> "var", v |-> v]
Not(a) == [c |-> "not", a |-> a]
And(a, b) == [c |-> "and", a |-> a, b |-> b]
TokenIs(off, abs, toks) == [c |-> "token", off |-> off, abs |-> abs, in |-> toks]
NameIs(off, abs, names) == [c |-> "name", off |-> off, abs |-> abs, in |-> names]
HasChild == [c |-> "child"]
HasChildren == [c |-> "children"]
CurlyStmt == [c |-> "property", tok |-> "{"]
(* A test that takes no statement after else for an if statement.         *)
NeverElseIf == [c |-> "property", tok |-> "else"]
ElseIfStmt == [c |-> "property", tok |-> "if"]
ChainOf(pred) == [c |-> "chain", pred |-> pred]
IsBinary(pred) == [c |-> "binary", pred |-> pred]

RECURSIVE Eval(_, _, _)
Eval(c, self, st) ==
    CASE c.c = "true" -> "T"
      [] c.c = "false" -> "F"
      [] c.c = "var" -> st.vars[c.v]
      [] c.c = "not" -> LET a == Eval(c.a, self, st)
                        IN  IF a = "E" THEN "E" ELSE B(a = "F")
      [] c.c = "and" -> LET a == Eval(c.a, self, st)
                        IN  IF a = "T" THEN Eval(c.b, self, st) ELSE a
      [] c.c = "token" -> B(_get_child_token(self, st, c.off, c.abs) \in c.in)
      [] c.c = "name" -> B(_get_child_name(self, st, c.off, c.abs) \in c.in)
      [] c.c = "child" -> B(_get_child(self, st, 0, FALSE) # <<>>)
      [] c.c = "children" -> B(self.node.children # <<>>)
      [] c.c = "property" -> ChildHasProperty(self, st, c.tok)
      [] c.c = "chain" -> B(_is_expr_chain_of(self.script, st.nf, <<self.path>>, c.pred))
      [] c.c = "binary" -> B(formatter_predicate(c.pred, self.node))

(* The statements of a format() method, as data.                            *)
Child(indent, hinted, hints) ==
    [op |-> "_format_child", indent |-> indent, hinted |-> hinted, hints |-> hints]
FormatChild == Child(False, True, {})
FormatChildHints(hints) == Child(False, True, hints)
FormatChildIndent == Child(True, True, {})
Range(num, first_hints) ==
    [op |-> "_format_child_range", num |-> num, hints |-> {}, first_hints |-> first_hints]
Children(sep) == [op |-> "_format_children", sep |-> sep]
FormatToken == [op |-> "_format_token"]
Sp == [op |-> "_write_sp"]
Nl == [op |-> "_write_nl"]
If(c, a, b) == [op |-> "if", c |-> c, a |-> a, b |-> b]
Cases(arms) == [op |-> "elif", arms |-> arms]
While(c, body) == [op |-> "while", c |-> c, body |-> body]
Set(v, c) == [op |-> "set", v |-> v, c |-> c]

-----------------------------------------------------------------------------
(* The format() methods of the formatter classes.                           *)

SpaceSep == << <<" ">> >>

(* A default rule that puts a space between the children.                  *)
SpaceJoinedFormat ==
    <<If(HasChildren, <<Children(SpaceSep)>>, <<FormatToken>>)>>

(* Formatter.format.                                                        *)
Formatter_format ==
    <<If(HasChildren, <<Children(NoSep)>>, <<FormatToken>>)>>

NullFormatter_format == <<>>

LineFormatter_format ==
    <<If(HasChildren, <<Children(SpaceSep), Nl>>, <<FormatToken>>)>>

SpaceSeparatedFormatter_format ==
    <<If(HasChildren, <<Children(SpaceSep)>>, <<FormatToken>>)>>

ModuleDeclFormatter_format ==
    <<FormatChild, Sp, Range(2, {}), Nl>>

_format_typed_initializer ==
    <<If(TokenIs(0, FALSE, {":"}),
         <<FormatChildHints({NO_LB_AFTER}), Sp, FormatChild>>, <<>>),
      If(NameIs(0, FALSE, {"initializer"}), <<Sp, FormatChild>>, <<>>),
      If(NameIs(0, FALSE, {"attr_list"}), <<Sp, FormatChild>>, <<>>)>>

GlobalDeclFormatter_format ==
    <<FormatChild, Sp, FormatChild>>
    \o _format_typed_initializer
    \o <<FormatChildHints({NO_LB_BEFORE}), Nl>>

(* A _write_sp_or_nl that writes the line break where the space belongs.    *)
WriteNlOrSp(do_sp) == If(do_sp, <<Nl>>, <<Sp>>)

(* StmtFormatter._write_sp_or_nl(do_sp).                                    *)
_write_sp_or_nl(do_sp) == If(do_sp, <<Sp>>, <<Nl>>)

_child_is_curly_stmt == CurlyStmt

(* StmtFormatter._format_block.                                             *)
_format_block ==
    <<Set("curly", _child_is_curly_stmt),
      _write_sp_or_nl(Var("curly")),
      Child(Not(Var("curly")), True, {}),
      If(Var("curly"), <<Nl>>, <<>>)>>

(* StmtFormatter._format_when.                                              *)
_format_when ==
    <<FormatChild, Sp,
      If(NameIs(0, FALSE, {"capture_list"}), <<FormatChild, Sp>>, <<>>),
      FormatChildHints({NO_LB_BEFORE}), Sp,
      FormatChild, Sp,
      FormatChildHints({NO_LB_BEFORE}),
      Set("curly", _child_is_curly_stmt),
      _write_sp_or_nl(Var("curly")),
      Child(Not(Var("curly")), True, {}),
      Cases(<<
        <<TokenIs(0, FALSE, {"timeout"}),
          <<If(Var("curly"), <<Sp>>, <<>>),
            FormatChild, Sp, FormatChild, Sp,
            FormatChildHints({NO_LB_BEFORE}), Nl,
            If(NameIs(0, FALSE, {"stmt_list"}), <<FormatChildIndent>>, <<>>),
            FormatChild, Nl>> >>,
        <<Var("curly"), <<Nl>> >> >>)>>

(* StmtFormatter.format.  start_name and start_token are the name and the   *)
(* token of the first child.                                                *)
StmtFormatter_format ==
    <<Cases(<<
      <<TokenIs(0, TRUE, {"{"}),
        <<FormatChildHints({NO_LB_BEFORE}),
          If(NameIs(0, FALSE, {"stmt_list"}), <<Nl, FormatChildIndent>>, <<Sp>>),
          FormatChild>> >>,
      <<TokenIs(0, TRUE, {"print", "event"}),
        <<FormatChild, Sp, Range(2, {}), Nl>> >>,
      <<TokenIs(0, TRUE, {"if"}),
        <<FormatChild, Sp,
          FormatChildHints({NO_LB_BEFORE}), Sp,
          FormatChild, Sp,
          FormatChildHints({NO_LB_BEFORE}),
          Set("curly", _child_is_curly_stmt),
          _write_sp_or_nl(Var("curly")),
          Child(Not(Var("curly")), True, {}),
          Cases(<<
            <<TokenIs(0, FALSE, {"else"}),
              <<If(Var("curly"), <<Sp>>, <<>>),
                FormatChild,
                If(ElseIfStmt,
                   <<Sp, FormatChild>>,
                   <<Set("curly", _child_is_curly_stmt),
                     _write_sp_or_nl(Var("curly")),
                     Child(Not(Var("curly")), True, {}),
                     If(Var("curly"), <<Nl>>, <<>>)>>)>> >>,
            <<Var("curly"), <<Nl>> >> >>)>> >>,
      <<TokenIs(0, TRUE, {"switch"}),
        <<FormatChild, Sp, FormatChild, Sp,
          FormatChildHints({NO_LB_BEFORE}),
          If(NameIs(0, FALSE, {"case_list"}), <<Nl, FormatChildIndent>>, <<Sp>>),
          FormatChild, Nl>> >>,
      <<TokenIs(0, TRUE, {"for"}),
        <<FormatChild, Sp,
          FormatChildHints({NO_LB_BEFORE}), Sp,
          If(TokenIs(0, FALSE, {"["}),
             <<FormatChildHints({NO_LB_BEFORE}),
               While(Not(TokenIs(0, FALSE, {"]"})),
                     <<FormatChild,
                       If(TokenIs(0, FALSE, {","}),
                          <<FormatChildHints({NO_LB_BEFORE}), Sp>>, <<>>)>>),
               FormatChildHints({NO_LB_BEFORE})>>,
             <<FormatChild>>),
          While(TokenIs(0, FALSE, {","}),
                <<FormatChildHints({NO_LB_BEFORE}), Sp, FormatChild>>),
          Sp, FormatChild, Sp, FormatChild, Sp,
          FormatChildHints({NO_LB_BEFORE})>>
        \o _format_block >>,
      <<TokenIs(0, TRUE, {"while"}),
        <<FormatChild, Sp,
          FormatChildHints({NO_LB_BEFORE}), Sp,
          FormatChild, Sp,
          FormatChildHints({NO_LB_BEFORE})>>
        \o _format_block >>,
      <<TokenIs(0, TRUE, {"next", "break", "fallthrough"}),
        <<Range(2, {}), Nl>> >>,
      <<TokenIs(0, TRUE, {"return"}),
        <<FormatChild,
          If(TokenIs(0, FALSE, {"when"}),
             <<Sp>> \o _format_when,
             <<If(NameIs(0, FALSE, {"expr"}), <<Sp, FormatChild>>, <<>>),
               FormatChildHints({NO_LB_BEFORE}), Nl>>)>> >>,
      <<TokenIs(0, TRUE, {"add", "delete"}),
        <<FormatChild, Sp, Range(2, {}), Nl>> >>,
      <<TokenIs(0, TRUE, {"local", "const"}),
        <<FormatChild, Sp, FormatChild>>
        \o _format_typed_initializer
        \o <<FormatChildHints({NO_LB_BEFORE}), Nl>> >>,
      <<TokenIs(0, TRUE, {"when"}), _format_when>>,
      <<NameIs(0, TRUE, {"index_slice"}),
        <<FormatChild, Sp, FormatChild, Sp, Range(2, {}), Nl>> >>,
      <<NameIs(0, TRUE, {"expr"}),
        <<Range(2, {}), Nl>> >>,
      <<NameIs(0, TRUE, {"preproc_directive"}),
        <<FormatChild, Nl>> >>,
      <<TokenIs(0, TRUE, {";"}),
        <<FormatChild, Nl>> >> >>)>>

ExprListFormatter_format ==
    <<While(NameIs(0, FALSE, {"expr"}),
            <<FormatChild,
              If(HasChild, <<FormatChildHints({NO_LB_BEFORE}), Sp>>, <<>>)>>)>>

CaseListFormatter_format ==
    <<While(HasChild,
            <<If(TokenIs(0, FALSE, {"case"}),
                 <<FormatChild, Sp, Range(2, {})>>,
                 <<Range(2, {})>>),
              Nl,
              If(NameIs(0, FALSE, {"stmt_list"}), <<FormatChildIndent>>, <<>>)>>)>>

EventHdrFormatter_format ==
    <<FormatChild,
      FormatChildHints({NO_LB_BEFORE}),
      If(NameIs(0, FALSE, {"expr_list"}), <<FormatChild>>, <<>>),
      FormatChildHints({NO_LB_BEFORE})>>

(* ExprFormatter.format.  cn1..cn3 and ct1..ct3 are the names and tokens of *)
(* the first three children.                                                *)
ExprFormatter_format ==
    <<Cases(<<
      <<And(NameIs(0, FALSE, {"expr"}), TokenIs(1, FALSE, {"["})),
        <<FormatChild,
          FormatChildHints({NO_LB_BEFORE, NO_LB_AFTER}),
          FormatChild,
          FormatChildHints({NO_LB_BEFORE})>> >>,
      <<And(NameIs(0, FALSE, {"expr"}), TokenIs(1, FALSE, {"$"})),
        <<FormatChild,
          FormatChildHints({NO_LB_BEFORE, NO_LB_AFTER}),
          While(HasChild, <<FormatChild>>)>> >>,
      <<And(NameIs(0, FALSE, {"expr"}), NameIs(1, FALSE, {"index_slice"})),
        <<While(HasChild, <<FormatChild>>)>> >>,
      <<TokenIs(0, FALSE, {"!"}),
        <<FormatChildHints({NO_LB_AFTER}), Sp, FormatChild>> >>,
      <<TokenIs(0, FALSE, {"|", "++", "--", "~", "-", "+"}),
        <<FormatChildHints({NO_LB_AFTER}), While(HasChild, <<FormatChild>>)>> >>,
      <<And(NameIs(0, FALSE, {"expr"}),
            And(TokenIs(1, FALSE, {"!"}), TokenIs(2, FALSE, {"in"}))),
        <<FormatChild, Sp,
          FormatChildHints({NO_LB_AFTER}),
          FormatChild, Sp,
          FormatChild>> >>,
      <<TokenIs(0, FALSE, {"["}),
        <<FormatChildHints({NO_LB_BEFORE}),
          If(NameIs(0, FALSE, {"expr_list"}), <<FormatChild>>, <<Sp>>),
          FormatChildHints({NO_LB_BEFORE})>> >>,
      <<And(TokenIs(0, FALSE, {"$"}), TokenIs(2, FALSE, {"="})),
        <<Range(4, {GOOD_AFTER_LB})>> >>,
      <<TokenIs(0, FALSE, {"$"}),
        <<Range(2, {GOOD_AFTER_LB}), Sp,
          FormatChildHints({NO_LB_BEFORE, NO_LB_AFTER}), Sp,
          FormatChildHints({NO_LB_BEFORE}), Sp,
          FormatChild>> >>,
      <<TokenIs(0, FALSE, {"("}),
        <<FormatChildHints({NO_LB_BEFORE}), Sp,
          FormatChildHints({NO_LB_AFTER}), Sp,
          FormatChild>> >>,
      <<TokenIs(0, FALSE, {"copy"}),
        <<FormatChild, FormatChildHints({NO_LB_BEFORE}), Range(2, {})>> >>,
      <<TokenIs(1, FALSE, {"?$"}),
        <<Range(3, {})>> >>,
      <<TokenIs(0, FALSE, {"function"}),
        <<Range(2, {}), Sp, FormatChild>> >>,
      <<TokenIs(1, FALSE, {"("}),
        <<FormatChild,
          FormatChildHints({NO_LB_BEFORE}),
          If(NameIs(0, FALSE, {"expr_list"}), <<FormatChild>>, <<>>),
          FormatChildHints({NO_LB_BEFORE}),
          If(NameIs(0, FALSE, {"attr_list"}), <<Sp, FormatChild>>, <<>>)>> >>,
      <<IsBinary("_is_binary_boolean"),
        <<Set("hints", ChainOf("_is_binary_boolean")),
          FormatChild, Sp,
          Child(False, Var("hints"), {GOOD_AFTER_LB}), Sp,
          FormatChild>> >>,
      <<IsBinary("_is_binary_addition"),
        <<Set("hints", ChainOf("_is_binary_addition")),
          FormatChild, Sp,
          Child(False, Var("hints"), {GOOD_AFTER_LB}), Sp,
          FormatChild>> >>,
      <<True, SpaceSeparatedFormatter_format>> >>)>>

AttrFormatter_format ==
    <<If(TokenIs(1, FALSE, {"="}), <<Range(3, {})>>, <<FormatChild>>)>>

ZeekygenCommentFormatter_format == <<FormatToken, Nl>>

(* The start of the run of newlines that ends at position pos.              *)
RECURSIVE RunStart(_, _)
RunStart(sibs, pos) ==
    IF pos > 1 /\ is_nl(sibs[pos - 1]) THEN RunStart(sibs, pos - 1) ELSE pos

(* NlFormatter.format.  Its _write_nl is noted among the calls with the     *)
(* column before (col) and after it (col2).                                 *)
NlFormatter_format(self, s) ==
    LET sibs == self.sibs
        pos == self.pos
        first == RunStart(sibs, pos)
        Noted(s1) ==
            [s1 EXCEPT !.calls = Append(@, [op |-> "_write_nl", by |-> self.path,
                                            col |-> s.os.col, col2 |-> s1.os.col])]
    IN  IF pos < Len(sibs) /\ is_nl(sibs[pos + 1]) THEN s
        ELSE IF pos = Len(sibs) \/ token(sibs[pos + 1]) = "}" THEN s
        ELSE IF pos > 1 /\ is_nl(sibs[pos - 1])
                /\ first > 1 /\ token(sibs[first - 1]) # "{"
        THEN Noted(_write_nl(self, s, 1, TRUE, FALSE))
        ELSE s

(* MinorCommentFormatter.format.                                            *)
MinorCommentFormatter_format(self, s) ==
    LET sibs == self.sibs
        pos == self.pos
        Separated == IF pos > 1 /\ ~is_nl(sibs[pos - 1])
                     THEN _write_sp(self, s, 1) ELSE s
        EndLine(s2) == IF pos = 1 \/ is_nl(sibs[pos - 1])
                       THEN _write_nl(self, s2, 1, FALSE, FALSE)
                       ELSE _write_nl(self, s2, 1, FALSE, TRUE)
    IN  EndLine(_format_token(self, Separated))

(* ZeekygenPrevCommentFormatter.format.                                     *)
ZeekygenPrevCommentFormatter_format(self, s) ==
    LET sibs == self.sibs
        pos == self.pos
        pnode == find_prev_cst_sibling(sibs, pos)
        Aligned(s1) ==
            IF pnode > 0 /\ is_zeekygen_prev_comment(sibs[pnode])
            THEN _write_sp(self, s1,
                           s1.nf[Append(Front(self.path), pnode)].column
                           - get_column(s1.os))
            ELSE _write_sp(self, s1, 1)
        Recorded(s2) == [s2 EXCEPT !.nf[self.path].column = get_column(s2.os)]
        EndLine(s4) ==
            IF pos + 2 <= Len(sibs) /\ is_nl(sibs[pos + 1])
               /\ is_zeekygen_prev_comment(sibs[pos + 2])
            THEN _write_nl(self, s4, 1, FALSE, FALSE)
            ELSE s4
    IN  EndLine(_format_token(self, Recorded(Aligned(_write_indent(self, s).s))))

-----------------------------------------------------------------------------
(* Following the control flow of a format() method.                         *)

NewFrame(nf) ==
    [cidx |-> 0, vars |-> NoVars, nf |-> nf, acts |-> <<>>, err |-> FALSE]

Call(st, act) == [st EXCEPT !.acts = Append(@, act)]

(* An AttributeError is raised: nothing after it is run.                    *)
Raise(st) == [st EXCEPT !.err = TRUE, !.acts = Append(@, [op |-> "raise"])]

(* A _next_child that moves the cursor on even when no child is left.       *)
NextChildPastEnd(self, st) ==
    [node |-> IF st.cidx < Len(self.node.children) THEN st.cidx + 1 ELSE 0,
     st |-> [st EXCEPT !.cidx = @ + 1]]

(* Formatter._next_child: the index of the child returned (0 for None) and  *)
(* the _cidx after the call.                                                *)
_next_child(self, st) ==
    IF st.cidx < Len(self.node.children)
    THEN [node |-> st.cidx + 1, st |-> [st EXCEPT !.cidx = @ + 1]]
    ELSE [node |-> 0, st |-> st]

(* A call of Formatter._format_child: the cursor moves on, and the child's  *)
(* formatting is what the call does to the stream.  With no child left      *)
(* _next_child returns None and reading None.prev_cst_siblings raises an    *)
(* AttributeError.                                                          *)
Call_format_child(self, st, indent, hints) ==
    IF st.err THEN st
    ELSE LET n == _next_child(self, st)
         IN  IF n.node = 0 THEN Raise(st)
             ELSE Call(n.st, [op |-> "_format_child", node |-> n.node,
                              indent |-> indent, hints |-> hints])

(* The for loop of _format_child_range over the inner elements.             *)
RECURSIVE FormatInner(_, _, _, _)
FormatInner(self, st, n, hints) ==
    IF n <= 0 THEN st
    ELSE FormatInner(self, Call_format_child(self, st, FALSE, hints \cup {NO_LB_AFTER}),
                     n - 1, hints)

(* Formatter._format_child_range.  The call itself is noted among the      *)
(* calls (it writes nothing), so that the children it formats can be told.  *)
_format_child_range(self, st0, num, hints0, first_hints0) ==
    LET hints == HintOrNone(hints0)
        first_hints == HintOrNone(first_hints0)
        st == Call(st0, [op |-> "_format_child_range", num |-> num])
    IN  IF num <= 0 THEN st
        ELSE IF num = 1
        THEN Call_format_child(self, st, FALSE, hints \cup first_hints)
        ELSE LET s1 == Call_format_child(self, st, FALSE,
                                         hints \cup first_hints \cup {NO_LB_AFTER})
                 s2 == FormatInner(self, s1, num - 2, hints)
             IN  Call_format_child(self, s2, FALSE, hints)

(* The while loop of _format_children.                                      *)
RECURSIVE FormatRest(_, _, _)
FormatRest(self, st, sep) ==
    IF st.err \/ _children_remaining(self, st) = 0 THEN st
    ELSE LET s1 == IF sep # NoSep
                   THEN Call(st, [op |-> "_write", data |-> sep[1]])
                   ELSE st
         IN  FormatRest(self, Call_format_child(self, s1, FALSE, {}), sep)

(* Formatter._format_children: sep is NoSep (None) or <<bytes>>.  The hints *)
(* of this instance go to the first child.                                  *)
_format_children(self, st, sep) ==
    LET s1 == IF _children_remaining(self, st) # 0
              THEN Call_format_child(self, st, FALSE, self.hints)
              ELSE st
    IN  FormatRest(self, s1, sep)

RECURSIVE Plan(_, _, _)
RECURSIVE PlanSeq(_, _, _, _, _)
RECURSIVE PlanStep(_, _, _)
RECURSIVE PlanArms(_, _, _)
RECURSIVE PlanWhile(_, _, _)

(* if / elif / ... : the conditions are evaluated in order up to the first  *)
(* that holds, whose arm is taken, or that raises.                          *)
PlanArms(arms, self, st) ==
    LET decided == {i \in 1..Len(arms) : Eval(arms[i][1], self, st) # "F"}
        Taken(i) == IF Eval(arms[i][1], self, st) = "E" THEN Raise(st)
                    ELSE Plan(arms[i][2], self, st)
    IN  IF decided = {} THEN st
        ELSE Taken(CHOOSE i \in decided : \A j \in decided : i <= j)

PlanWhile(ins, self, st) ==
    IF st.err THEN st
    ELSE LET c == Eval(ins.c, self, st)
         IN  IF c = "E" THEN Raise(st)
             ELSE IF c = "F" THEN st
             ELSE PlanWhile(ins, self, Plan(ins.body, self, st))

(* One statement of a format() method.                                      *)
PlanStep(ins, self, st) ==
    CASE ins.op = "_format_child" ->
            Call_format_child(self, st, Eval(ins.indent, self, st) = "T",
                              IF Eval(ins.hinted, self, st) = "T" THEN ins.hints ELSE {})
      [] ins.op = "_format_child_range" ->
            _format_child_range(self, st, ins.num, ins.hints, ins.first_hints)
      [] ins.op = "_format_children" -> _format_children(self, st, ins.sep)
      [] ins.op \in {"_format_token", "_write_sp", "_write_nl"} ->
            Call(st, [op |-> ins.op])
      [] ins.op = "if" -> PlanArms(<< <<ins.c, ins.a>>, <<True, ins.b>> >>, self, st)
      [] ins.op = "elif" -> PlanArms(ins.arms, self, st)
      [] ins.op = "while" -> PlanWhile(ins, self, st)
      [] ins.op = "set" ->
            LET c == Eval(ins.c, self, st)
            IN  IF c = "E" THEN Raise(st) ELSE [st EXCEPT !.vars[ins.v] = c]

(* The statements prog[from..to] in order (half by half); an exception ends *)
(* the method.                                                              *)
PlanSeq(prog, from, to, self, st) ==
    IF from > to \/ st.err THEN st
    ELSE IF from = to THEN PlanStep(prog[from], self, st)
    ELSE LET mid == (from + to) \div 2
             Rest(s1) == PlanSeq(prog, mid + 1, to, self, s1)
         IN  Rest(PlanSeq(prog, from, mid, self, st))

(* The statements of a method body.                                         *)
Plan(prog, self, st) == PlanSeq(prog, 1, Len(prog), self, st)

-----------------------------------------------------------------------------
(* Making the calls of a format() method.                                   *)

RECURSIVE format(_, _)
RECURSIVE Run(_, _, _, _)
RECURSIVE FormatCst(_, _, _, _, _, _, _)

(* Formatter._format_child_impl for the CST child at position i: look the   *)
(* class up, construct the instance (which hooks it into the node) and run  *)
(* its format().                                                            *)
_format_child_impl(self, s, i, indent, hints) ==
    LET sibs == cst_children(self.node)
        path == Append(self.path, i)
        Formatted(r) ==
            format([script |-> self.script, path |-> path, node |-> sibs[i],
                    sibs |-> sibs, pos |-> i,
                    indent |-> self.indent + (IF indent THEN 1 ELSE 0),
                    hints |-> Formatter__init__(r.cls, hints), cls |-> r.cls],
                   [s EXCEPT !.map = r.map,
                             !.nf = (path :> [cls |-> r.cls, column |-> 0]) @@ @,
                             !.calls = Append(@,
                                 [op |-> "_format_child_impl", by |-> self.path,
                                  at |-> i, hints |-> hints,
                                  indent |-> self.indent
                                             + (IF indent THEN 1 ELSE 0)])])
    IN  Formatted(lookup(s.map, sibs[i]))

(* The CST children at positions from..to in order: the node itself, at     *)
(* position i, with the hints, the siblings attached to it without.         *)
FormatCst(self, s, from, to, i, indent, hints) ==
    LET Rest(s1) == IF from = to \/ s1.err THEN s1
                    ELSE FormatCst(self, s1, from + 1, to, i, indent, hints)
    IN  Rest(_format_child_impl(self, s, from, indent,
                                IF from = i THEN hints ELSE {}))

(* A _format_child that leaves the child's prev_cst_siblings out.           *)
FormatChildSkipsPrev(self, s, k, indent, hints) ==
    LET i == cst_index(self.node, k)
    IN  FormatCst(self,
                  [s EXCEPT !.calls = Append(@,
                      [op |-> "_format_child", by |-> self.path, at |-> k,
                       hints |-> hints, indent |-> IF indent THEN 1 ELSE 0,
                       out |-> Len(s.os.ostream),
                       buf |-> Len(s.os.linebuffer), col |-> s.os.col])],
                  i, i + Len(self.node.children[k].next_cst_siblings),
                  i, indent, hints)

(* What Formatter._format_child does with the child _next_child returned:   *)
(* format its prev_cst_siblings, the node, and its next_cst_siblings.       *)
_format_child(self, s, k, indent, hints) ==
    LET node == self.node.children[k]
        i == cst_index(self.node, k)
    IN  FormatCst(self,
                  [s EXCEPT !.calls = Append(@,
                      [op |-> "_format_child", by |-> self.path, at |-> k,
                       hints |-> hints, indent |-> IF indent THEN 1 ELSE 0,
                       out |-> Len(s.os.ostream),
                       buf |-> Len(s.os.linebuffer), col |-> s.os.col])],
                  i - Len(node.prev_cst_siblings),
                  i + Len(node.next_cst_siblings), i, indent, hints)

(* One call.  A _write_sp or _write_nl of a format() method is noted among  *)
(* the calls with the column before (col) and after it (col2).              *)
RunCall(act, self, s) ==
    LET Noted(s1) ==
            [s1 EXCEPT !.calls = Append(@, [op |-> act.op, by |-> self.path,
                                            col |-> s.os.col, col2 |-> s1.os.col])]
    IN
    CASE act.op = "_format_child" ->
            _format_child(self, s, act.node, act.indent, act.hints)
      [] act.op = "_write" -> Formatter_write(self, s, act.data)
      [] act.op = "_write_sp" -> Noted(_write_sp(self, s, 1))
      [] act.op = "_write_nl" -> Noted(_write_nl(self, s, 1, FALSE, FALSE))
      [] act.op = "_format_token" -> _format_token(self, s)
      [] act.op = "_format_child_range" ->
            [s EXCEPT !.calls = Append(@,
                [op |-> "_format_child_range", by |-> self.path, num |-> act.num,
                 out |-> Len(s.os.ostream), buf |-> Len(s.os.linebuffer)])]
      [] act.op = "raise" -> [s EXCEPT !.err = TRUE]

(* The calls acts[1..to] in order; an exception ends the method.            *)
Run(acts, to, self, s) ==
    LET Last(s1) == IF s1.err THEN s1 ELSE RunCall(acts[to], self, s1)
    IN  IF to = 0 THEN s ELSE Last(Run(acts, to - 1, self, s))

(* The format() methods that are given as data, by class.                   *)
FormatProgram(cls) ==
    CASE cls \in {"Formatter", "CommentFormatter"} -> Formatter_format
      [] cls = "NullFormatter" -> NullFormatter_format
      [] cls = "LineFormatter" -> LineFormatter_format
      [] cls = "SpaceSeparatedFormatter" -> SpaceSeparatedFormatter_format
      [] cls = "ModuleDeclFormatter" -> ModuleDeclFormatter_format
      [] cls = "GlobalDeclFormatter" -> GlobalDeclFormatter_format
      [] cls = "StmtFormatter" -> StmtFormatter_format
      [] cls = "ExprListFormatter" -> ExprListFormatter_format
      [] cls = "CaseListFormatter" -> CaseListFormatter_format
      [] cls = "EventHdrFormatter" -> EventHdrFormatter_format
      [] cls = "ExprFormatter" -> ExprFormatter_format
      [] cls = "AttrFormatter" -> AttrFormatter_format
      [] cls = "ZeekygenCommentFormatter" -> ZeekygenCommentFormatter_format

(* The format() of an instance.                                             *)
format(self, s) ==
    CASE self.cls = "NlFormatter" -> NlFormatter_format(self, s)
      [] self.cls = "MinorCommentFormatter" -> MinorCommentFormatter_format(self, s)
      [] self.cls = "ZeekygenPrevCommentFormatter" ->
            ZeekygenPrevCommentFormatter_format(self, s)
      [] OTHER ->
            LET Calls(acts) == Run(acts, Len(acts), self, s)
            IN  Calls(Plan(FormatProgram(self.cls), self, NewFrame(s.nf)).acts)

-----------------------------------------------------------------------------
(* The syntax trees the formatter is run on.                                *)

MaxNl == 2          \* longest run of newline nodes
MaxDepth == 2       \* deepest nesting of if statements
MaxChildren == 3    \* most children of a node of an unmapped kind
MaxPasses == 2      \* formatting passes over one tree

Token(t) == Node(t, FALSE, Chars(t), <<>>)
Leaf(kind, text) == Node(kind, TRUE, Chars(text), <<>>)
Named(kind, children) == Node(kind, TRUE, <<>>, children)
Before(extras, node) == [node EXCEPT !.prev_cst_siblings = extras]
After(node, extras) == [node EXCEPT !.next_cst_siblings = extras]

NlNode == Node("nl", TRUE, NL, <<>>)
MinorComment == Leaf("minor_comment", "#c")
PrevComment == Leaf("zeekygen_prev_comment", "##<d")
NullNode == Leaf("nullnode", "")

X == Named("expr", <<Leaf("id", "x")>>)
AndExpr(a, b) == Named("expr", <<a, Token("&&"), b>>)

Stmt(children) == Named("stmt", children)
PrintStmt == Stmt(<<Token("print"), Named("expr_list", <<X>>), Token(";")>>)
ExprStmt(e) == Stmt(<<e, Token(";")>>)
ReturnStmt == Stmt(<<Token("return"), Token(";")>>)
AssertStmt == Stmt(<<Token("assert"), X, Token(";")>>)
CutStmt == Stmt(<<Token("print")>>)
Block(stmts) ==
    IF stmts = <<>> THEN Stmt(<<Token("{"), Token("}")>>)
    ELSE Stmt(<<Token("{"), Named("stmt_list", stmts), Token("}")>>)
IfStmt(body) == Stmt(<<Token("if"), Token("("), X, Token(")"), body>>)
IfElseStmt(body, other) ==
    Stmt(<<Token("if"), Token("("), X, Token(")"), body, Token("else"), other>>)

(* depth nested if statements around a statement.                           *)
RECURSIVE IfNest(_, _)
IfNest(depth, body) ==
    IF depth = 0 THEN body ELSE IfStmt(IfNest(depth - 1, body))

Shapes ==
    {PrintStmt, ExprStmt(X), ExprStmt(AndExpr(AndExpr(X, X), X)), ReturnStmt,
     AssertStmt, CutStmt, Block(<<>>), Block(<<PrintStmt, ReturnStmt>>),
     IfElseStmt(PrintStmt, ReturnStmt),
     IfElseStmt(Block(<<PrintStmt>>), Block(<<ReturnStmt>>)),
     IfElseStmt(PrintStmt, IfStmt(ReturnStmt)),
     IfElseStmt(Block(<<PrintStmt>>), IfStmt(Block(<<ReturnStmt>>)))}
    \cup {IfNest(d, PrintStmt) : d \in 1..MaxDepth}
    \cup {IfNest(d, Block(<<PrintStmt>>)) : d \in 1..MaxDepth}

NlRun(n) == [i \in 1..n |-> NlNode]
NlRuns == {NlRun(n) : n \in 0..MaxNl}

(* What may stand between two statements: newlines, and a comment or two    *)
(* among them.                                                              *)
Gaps ==
    {a \o c \o b : a \in NlRuns, b \in NlRuns,
                   c \in {<<>>, <<MinorComment>>, <<PrevComment>>,
                          <<PrevComment, NlNode, PrevComment>>}}

SourceFile(stmts) == Named("source_file", stmts)

(* A leaf or a node of a kind no formatter class is mapped to.              *)
Leaves == {Token("a"), Leaf("id", "b"), Leaf("constant", "c d")}
LeafSeqs == UNION {[1..n -> Leaves] : n \in 1..MaxChildren}
GenericTrees == {Named("foo_bar", cs) : cs \in LeafSeqs} \cup Leaves

(* An if statement with comments and newlines attached to its '(' and to    *)
(* its body.                                                                *)
Extras == {<<>>, <<NlNode>>, <<MinorComment, NlNode>>}
CommentedIfs ==
    {Stmt(<<Token("if"), After(Before(g, Token("(")), h), X, Token(")"),
            After(Before(g, body), h)>>) :
        g \in Extras, h \in Extras, body \in {PrintStmt, Block(<<PrintStmt>>)}}

(* The other statements that control a statement, and if / else-if         *)
(* cascades.                                                                *)
WhileStmt(body) == Stmt(<<Token("while"), Token("("), X, Token(")"), body>>)
ForStmt(body) ==
    Stmt(<<Token("for"), Token("("), Leaf("id", "x"), Token("in"), X, Token(")"),
           body>>)
WhenStmt(body) == Stmt(<<Token("when"), Token("("), X, Token(")"), body>>)
WhenTimeoutStmt(body) ==
    Stmt(<<Token("when"), Token("("), X, Token(")"), body, Token("timeout"), X,
           Token("{"), Named("stmt_list", <<ReturnStmt>>), Token("}")>>)

Bodies == {ReturnStmt, Block(<<ReturnStmt>>)}

RECURSIVE Cascade(_, _, _)
Cascade(depth, body, last) ==
    IF depth = 0 THEN last
    ELSE IfElseStmt(body, Cascade(depth - 1, body, last))

Controlled ==
    UNION {{WhileStmt(b), ForStmt(b), WhenStmt(b), WhenTimeoutStmt(b),
            IfStmt(b)} : b \in Bodies}
    \cup {Cascade(d, a, b) : d \in 1..2, a \in Bodies,
                             b \in Bodies \cup {IfStmt(ReturnStmt)}}
    \cup {WhileStmt(Cascade(2, ReturnStmt, ReturnStmt))}

(* print statements of three arguments, the last of 24 characters; with     *)
(* ArgLen for the other two the line is as wide as MAX_LINE_LEN before its  *)
(* ';' ("print ", two ", " and the last argument take 34 columns).          *)
ArgLen == (MAX_LINE_LEN - 34) \div 2
Arg(c, len) == Named("expr", <<Node("id", TRUE, Rep(c, len), <<>>)>>)
WidePrint(len) ==
    Stmt(<<Token("print"),
           Named("expr_list", <<Arg("a", len), Token(","), Arg("b", len),
                                Token(","), Arg("c", 24)>>),
           Token(";")>>)
WidePrints == {WidePrint(len) : len \in {ShortLen, ArgLen - 1, ArgLen}}

(* Binary expressions: chains of two operators of the same and of           *)
(* different kinds below a statement, a chain below a '!' expression and    *)
(* one in an expr_list, and expressions that are the root of the tree.      *)
Binary(op, a, b) == Named("expr", <<a, Token(op), b>>)
Operators == {"&&", "||", "+"}
Chains ==
    {ExprStmt(Binary(o1, Binary(o2, X, X), X)) : o1 \in Operators, o2 \in Operators}
    \cup {ExprStmt(Binary(o1, X, Binary(o2, X, X))) : o1 \in {"&&"}, o2 \in {"||", "+"}}
    \cup {ExprStmt(Named("expr", <<Token("!"), Binary(o, X, X)>>)) : o \in Operators}
    \cup {Stmt(<<Token("print"), Named("expr_list", <<Binary(o, X, X)>>),
                 Token(";")>>) : o \in Operators}
RootChains == {Binary(o, X, X) : o \in Operators}

(* Statements over a chain of three && operands, the last of 23            *)
(* characters; with ChainArgLen for the other two the line is MAX_LINE_LEN  *)
(* columns wide (two " && ", the last operand and the ';' take 32).         *)
ChainArgLen == (MAX_LINE_LEN - 32) \div 2
WideChain(len) ==
    ExprStmt(Binary("&&", Binary("&&", Arg("a", len), Arg("b", len)),
                    Arg("c", 23)))
WideChains ==
    {WideChain(len) : len \in {ChainArgLen - 1, ChainArgLen, ChainArgLen + 1}}

(* Runs of ##< comments with newlines between them: behind the '{' of a     *)
(* block and behind a statement, in a block of the top level and in a      *)
(* block within a block.                                                    *)
PrevRuns ==
    {<<PrevComment>> \o NlRun(n) \o <<PrevComment>> : n \in 1..MaxNl}
    \cup {<<PrevComment, NlNode, PrevComment, NlNode, PrevComment>>}
OpenedBy(run) ==
    Stmt(<<After(Token("{"), run), Named("stmt_list", <<ReturnStmt>>), Token("}")>>)
DocumentedBlocks ==
    {OpenedBy(r) : r \in PrevRuns}
    \cup {Block(<<OpenedBy(r)>>) : r \in PrevRuns}
    \cup {Block(<<After(ReturnStmt, r)>>) : r \in PrevRuns}

(* Runs of more than MaxNl newlines: between two statements, behind the '(' *)
(* of an if statement, and between two ##< comments.                        *)
LongNlRuns == {NlRun(MaxNl + 1), NlRun(MaxNl + 2)}
BlankLines ==
    {SourceFile(<<a, Before(r, ReturnStmt)>>) :
        a \in {PrintStmt, Block(<<>>), Block(<<ReturnStmt>>), IfStmt(ReturnStmt)},
        r \in LongNlRuns}
    \cup {SourceFile(<<Stmt(<<Token("if"), After(Token("("), r), X, Token(")"),
                             ReturnStmt>>)>>) : r \in LongNlRuns}
    \cup {SourceFile(<<Block(<<After(ReturnStmt,
                                     <<PrevComment>> \o r \o <<PrevComment>>)>>)>>) :
            r \in LongNlRuns}

Trees ==
    {SourceFile(<<a>>) :
        a \in Shapes \cup CommentedIfs \cup WidePrints \cup Controlled \cup Chains
              \cup WideChains \cup DocumentedBlocks}
    \cup RootChains \cup BlankLines
    \cup {SourceFile(<<a, Before(g, b)>>) :
            a \in {PrintStmt, AssertStmt, IfStmt(Block(<<PrintStmt>>))},
            g \in Gaps,
            b \in {PrintStmt, AssertStmt, Block(<<>>)}}
    \cup {SourceFile(<<PrintStmt, Before(g, m), Before(h, ReturnStmt)>>) :
            g \in NlRuns, h \in NlRuns, m \in {AssertStmt, NullNode}}
    \cup {SourceFile(<<Stmt(<<After(Token("{"), g),
                             Named("stmt_list", <<After(PrintStmt, h)>>),
                             Token("}")>>)>>) :
            g \in Gaps, h \in NlRuns}
    \cup {SourceFile(<<After(a, g)>>) : a \in {PrintStmt}, g \in Gaps}
    \cup GenericTrees

-----------------------------------------------------------------------------
(* Initial values.                                                          *)

NoLookup ==
    [done |-> FALSE, type |-> "", is_named |-> FALSE, cls |-> None,
     registered |-> <<>>, cached |-> FALSE]

NoTree == Node("", FALSE, <<>>, <<>>)
NoPass == [ostream |-> <<>>, linebuffer |-> <<>>, raised |-> FALSE]

InitStream ==
    /\ ostream = <<>>
    /\ _col = 0
    /\ _tab_indent = 0
    /\ _linebuffer = <<>>
    /\ _space_align = FALSE
    /\ sink_budget = Unlimited
    /\ sink_failed = FALSE
    /\ last_flush = NoFlush
    /\ written = <<>>
    /\ nwrites = 0

(* MAP after the module has been loaded.                                    *)
InitMap ==
    /\ _map = ExplicitMap
    /\ registered = ExplicitMap
    /\ looked = NoLookup
    /\ ncalls = 0

NoCall == [op |-> None]

InitNoCall ==
    /\ fnode = NoTree
    /\ _cidx = 0
    /\ last_call = NoCall

InitNoTree ==
    /\ format_calls = <<>>
    /\ tree = NoTree
    /\ node_formatter = <<>>
    /\ passes = 0
    /\ raised = FALSE
    /\ first_pass = NoPass
-----------------------------------------------------------------------------
(* The OutputStream as a state machine: any sequence of its operations.     *)

TheStream ==
    [ostream |-> ostream, col |-> _col, tab_indent |-> _tab_indent,
     linebuffer |-> _linebuffer, space_align |-> _space_align,
     budget |-> sink_budget, failed |-> sink_failed, flush |-> last_flush]

Becomes(os) ==
    /\ ostream' = os.ostream
    /\ _col' = os.col
    /\ _tab_indent' = os.tab_indent
    /\ _linebuffer' = os.linebuffer
    /\ _space_align' = os.space_align
    /\ sink_budget' = os.budget
    /\ sink_failed' = os.failed
    /\ last_flush' = os.flush

Letter(n) == <<"a", "b", "c", "d", "e", "f", "g", "h", "i", "j">>[((n - 1) % 10) + 1]

(* The chunks a formatter may hand over as write number n: tokens of two    *)
(* lengths (spelled with the letter of n, so that chunks can be told        *)
(* apart), a space, a line terminator, and a token followed by a blank and  *)
(* a terminator in one call.  Chunks of ZERO_WIDTH formatters (comments)    *)
(* are written under SpecLine.                                              *)
ShortTok(n) == Rep(Letter(n), ShortLen)
LongTok(n) == Rep(Letter(n), LongLen)

Inputs(n) ==
    ({ShortTok(n)} \X {{NONE}, {NO_LB_BEFORE}, {NO_LB_AFTER}})
    \cup ({LongTok(n)} \X {{NONE}, {GOOD_AFTER_LB}})
    \cup ({<<" ">>, NL, LongTok(n) \o <<" ">> \o NL} \X {{NONE}})

IndentedInputs(n) == {ShortTok(n), LongTok(n), <<" ">>} \X {{NONE}}

Init == InitStream /\ InitMap /\ InitNoTree /\ InitNoCall

(* OutputStream.write(data, formatter), called with any chunk.              *)
Write ==
    /\ nwrites < MaxWrites
    /\ \E in \in Inputs(nwrites + 1) :
          /\ Becomes(write(TheStream, in[1], in[2]))
          /\ written' = written \o in[1]
    /\ nwrites' = nwrites + 1
    /\ UNCHANGED <<mapvars, fmtvars, objvars>>

(* Formatter._write(data) of a formatter at indent >= 1, at the start of a  *)
(* line: the indentation is written first, then the data without its        *)
(* leading blanks.                                                          *)
WriteIndented ==
    /\ nwrites < MaxWrites
    /\ _col = 0
    /\ \E in \in IndentedInputs(nwrites + 1), indent \in 1..MaxIndent :
          /\ ~startswith(in[1], NL)
          /\ Becomes(write(write_space_align(
                              write_tab_indent(TheStream, indent, in[2]), in[2]),
                            lstrip(in[1]), in[2]))
          /\ written' = written \o lstrip(in[1])
    /\ nwrites' = nwrites + 1
    /\ UNCHANGED <<mapvars, fmtvars, objvars>>

(* OutputStream.set_space_align(True) between two lines.                    *)
SetSpaceAlign ==
    /\ nwrites < MaxWrites
    /\ _col = 0
    /\ ~_space_align
    /\ Becomes(set_space_align(TheStream, TRUE))
    /\ UNCHANGED written
    /\ nwrites' = nwrites + 1
    /\ UNCHANGED <<mapvars, fmtvars, objvars>>

Next == Write \/ WriteIndented \/ SetSpaceAlign

Spec == Init /\ [][Next]_vars

-----------------------------------------------------------------------------
(* The registry as a state machine: any sequence of Formatter.lookup and    *)
(* Formatter.register calls after the module has been loaded.               *)

MaxCalls == 3       \* lookup / register calls

(* The types of the nodes looked up: kinds with an explicit mapping, kinds  *)
(* a class name can be derived from, and kinds without a class.             *)
Kinds == {"stmt", "expr_list", "func", "nullnode", "foo_bar", "decl",
          "STMT", "expr__list", "formatter", ""}

(* Formatter.lookup(node).                                                  *)
Lookup ==
    /\ ncalls < MaxCalls
    /\ \E type \in Kinds, is_named \in BOOLEAN :
          LET Found(r) ==
                  /\ _map' = r.map
                  /\ looked' = [done |-> TRUE, type |-> type,
                                is_named |-> is_named, cls |-> r.cls,
                                registered |-> registered,
                                cached |-> type \in DOMAIN _map]
          IN  Found(lookup(_map, Node(type, is_named, Chars(type), <<>>)))
    /\ ncalls' = ncalls + 1
    /\ UNCHANGED <<registered, streamvars, fmtvars, objvars>>

(* Formatter.register(symbol_name, klass).                                  *)
Register ==
    /\ ncalls < MaxCalls
    /\ \E symbol_name \in {"stmt", "foo_bar"},
          klass \in {"NullFormatter", "LineFormatter"} :
          /\ _map' = register(_map, symbol_name, klass)
          /\ registered' = (symbol_name :> klass) @@ registered
    /\ ncalls' = ncalls + 1
    /\ UNCHANGED <<looked, streamvars, fmtvars, objvars>>

NextMap == Lookup \/ Register

InitRegistry == InitStream /\ InitMap /\ InitNoTree /\ InitNoCall

SpecMap == InitRegistry /\ [][NextMap]_vars

-----------------------------------------------------------------------------
(* One logical line: write() called chunk by chunk until the terminator     *)
(* arrives and _flush_line decides the breaks.                              *)

MaxLineWrites == 5
WideLen == 38

WideTok(n) == Rep(Letter(n), WideLen)

(* A comment's bytes, written by a CommentFormatter (ZERO_WIDTH).           *)
CommentLens == {ShortLen, LongLen}
Comment(len) == <<"#">> \o Rep("c", len - 1)

LineInputs(n) ==
    ({WideTok(n)} \X {{NONE}, {GOOD_AFTER_LB}})
    \cup ({ShortTok(n)} \X {{NONE}})
    \cup ({Comment(len) : len \in CommentLens} \X {{ZERO_WIDTH}})
    \cup ({<<" ">>, NL} \X {{NONE}})

(* OutputStream.write(data, formatter) while the first line is written.     *)
WriteInLine ==
    /\ nwrites < MaxLineWrites
    /\ ostream = <<>>
    /\ \E in \in LineInputs(nwrites + 1) :
          /\ Becomes(write(TheStream, in[1], in[2]))
          /\ written' = written \o in[1]
    /\ nwrites' = nwrites + 1
    /\ UNCHANGED <<mapvars, fmtvars, objvars>>

NextLine == WriteInLine

SpecLine == Init /\ [][NextLine]_vars

(* The first chunk of the line, written by Formatter._write of a formatter  *)
(* at indent >= 1: the indentation is written first, then the data without  *)
(* its leading blanks.                                                      *)
WriteLineIndented ==
    /\ nwrites = 0
    /\ \E in \in LineInputs(1), indent \in 1..MaxIndent :
          /\ ~startswith(in[1], NL)
          /\ Becomes(write(write_space_align(
                              write_tab_indent(TheStream, indent, in[2]), in[2]),
                            lstrip(in[1]), in[2]))
          /\ written' = written \o lstrip(in[1])
    /\ nwrites' = 1
    /\ UNCHANGED <<mapvars, fmtvars, objvars>>

NextIndentedLine == WriteLineIndented \/ WriteInLine

SpecIndentedLine == Init /\ [][NextIndentedLine]_vars

-----------------------------------------------------------------------------
(* The writing methods of one formatter, called in any order: _write(data)  *)
(* and _write_nl(num, force, is_midline).                                   *)

MaxNlCalls == 3

(* A formatter as far as its writing methods read it.                       *)
Writer(indent) == [indent |-> indent, hints |-> {NONE}]

WriteData ==
    /\ nwrites < MaxNlCalls
    /\ \E data \in {ShortTok(nwrites + 1), <<" ">>}, indent \in {0, MaxIndent} :
          /\ Becomes(Formatter_write(Writer(indent), [os |-> TheStream], data).os)
          /\ written' = written \o data
          /\ last_call' = [op |-> "_write", col |-> _col, data |-> data,
                           ostream |-> ostream, linebuffer |-> _linebuffer]
    /\ nwrites' = nwrites + 1
    /\ UNCHANGED <<mapvars, fmtvars, fnode, _cidx>>

WriteNl ==
    /\ nwrites < MaxNlCalls
    /\ \E num \in 1..MaxNl, force \in BOOLEAN, is_midline \in BOOLEAN :
          /\ Becomes(_write_nl(Writer(0), [os |-> TheStream],
                               num, force, is_midline).os)
          /\ last_call' = [op |-> "_write_nl", col |-> _col, num |-> num,
                           force |-> force, is_midline |-> is_midline,
                           ostream |-> ostream, linebuffer |-> _linebuffer]
    /\ nwrites' = nwrites + 1
    /\ UNCHANGED <<written, mapvars, fmtvars, fnode, _cidx>>

NextNl == WriteData \/ WriteNl

SpecNl == Init /\ [][NextNl]_vars

-----------------------------------------------------------------------------
(* The child cursor of one formatter: the methods that consume a child and  *)
(* the methods that look ahead, called in any order on a statement node.    *)

MaxOffset == 2

(* Statements, complete and cut short after the condition or after 'else'.  *)
CutIfStmt == Stmt(<<Token("if"), Token("("), X, Token(")")>>)
CutElseStmt ==
    Stmt(<<Token("if"), Token("("), X, Token(")"), PrintStmt, Token("else")>>)

CursorNodes ==
    {PrintStmt, ReturnStmt, IfStmt(PrintStmt), IfStmt(Block(<<PrintStmt>>)),
     IfElseStmt(PrintStmt, IfStmt(ReturnStmt)), CutIfStmt, CutElseStmt,
     Stmt(<<>>)}

(* The formatter of fnode with its cursor at _cidx.                         *)
TheFormatter == [node |-> fnode]
TheFrame == [NewFrame(<<>>) EXCEPT !.cidx = _cidx]

InitCursor ==
    /\ InitStream /\ InitMap /\ InitNoTree
    /\ fnode \in CursorNodes
    /\ _cidx = 0
    /\ last_call = NoCall

Called(op, pos, result, did_raise) ==
    [op |-> op, cidx |-> _cidx, pos |-> pos, result |-> result,
     raised |-> did_raise]

(* self._next_child().                                                      *)
NextChild ==
    /\ LET Returned(n) ==
               /\ _cidx' = n.st.cidx
               /\ last_call' = Called("_next_child", _cidx,
                                      IF n.node = 0 THEN None ELSE "node", FALSE)
       IN  Returned(_next_child(TheFormatter, TheFrame))
    /\ UNCHANGED <<streamvars, mapvars, fmtvars, fnode>>

(* self._format_child(), as far as the cursor goes.                         *)
FormatChildCall ==
    /\ LET Returned(st) ==
               /\ _cidx' = st.cidx
               /\ last_call' = Called("_format_child", _cidx,
                                      IF st.err THEN None ELSE "node", st.err)
       IN  Returned(Call_format_child(TheFormatter, TheFrame, FALSE, {}))
    /\ UNCHANGED <<streamvars, mapvars, fmtvars, fnode>>

(* self._format_child_range(num), as far as the cursor goes.                *)
FormatChildRange ==
    /\ \E num \in -1..MaxOffset + 1 :
          LET Returned(st) ==
                  /\ _cidx' = st.cidx
                  /\ last_call' = Called("_format_child_range", num, None, st.err)
          IN  Returned(_format_child_range(TheFormatter, TheFrame, num, {}, {}))
    /\ UNCHANGED <<streamvars, mapvars, fmtvars, fnode>>

(* self._get_child(offset, absolute) and the three accessors built on it.   *)
Peek ==
    /\ \E offset \in 0..MaxOffset, absolute \in BOOLEAN :
          LET pos == (IF absolute THEN 0 ELSE _cidx) + offset
          IN  \/ last_call' = Called("_get_child", pos,
                     IF _get_child(TheFormatter, TheFrame, offset, absolute) = <<>>
                     THEN None ELSE "node", FALSE)
              \/ last_call' = Called("_get_child_type", pos,
                     _get_child_type(TheFormatter, TheFrame, offset, absolute),
                     FALSE)
              \/ last_call' = Called("_get_child_name", pos,
                     _get_child_name(TheFormatter, TheFrame, offset, absolute),
                     FALSE)
              \/ last_call' = Called("_get_child_token", pos,
                     _get_child_token(TheFormatter, TheFrame, offset, absolute),
                     FALSE)
    /\ UNCHANGED <<streamvars, mapvars, fmtvars, fnode, _cidx>>

(* self._children_remaining().                                              *)
ChildrenRemaining ==
    /\ last_call' = Called("_children_remaining", _cidx,
                           _children_remaining(TheFormatter, TheFrame), FALSE)
    /\ UNCHANGED <<streamvars, mapvars, fmtvars, fnode, _cidx>>

(* self._child_is_curly_stmt() and the else-if test of StmtFormatter.format. *)
LookAhead ==
    /\ \E test \in {CurlyStmt, ElseIfStmt} :
          LET Tested(r) ==
                  last_call' = Called(IF test = CurlyStmt
                                      THEN "_child_is_curly_stmt" ELSE "else_if",
                                      _cidx, r, r = "E")
          IN  Tested(Eval(test, TheFormatter, TheFrame))
    /\ UNCHANGED <<streamvars, mapvars, fmtvars, fnode, _cidx>>

NextCursor ==
    \/ NextChild \/ FormatChildCall \/ FormatChildRange
    \/ Peek \/ ChildrenRemaining \/ LookAhead

SpecCursor == InitCursor /\ [][NextCursor]_vars

-----------------------------------------------------------------------------
(* Formatting passes over one syntax tree: each pass looks the root's class *)
(* up, constructs the root formatter on a fresh OutputStream and runs its   *)
(* format().  MAP and the nodes' formatter back-references are kept from    *)
(* pass to pass.                                                            *)

InitFmt ==
    /\ InitStream
    /\ InitMap
    /\ tree \in Trees
    /\ node_formatter = <<>>
    /\ passes = 0
    /\ raised = FALSE
    /\ first_pass = NoPass
    /\ format_calls = <<>>
    /\ InitNoCall

FormatScript ==
    /\ passes < MaxPasses
    /\ LET Formatted(r) ==
               format([script |-> tree, path |-> <<>>, node |-> tree,
                       sibs |-> <<tree>>, pos |-> 1, indent |-> 0,
                       hints |-> Formatter__init__(r.cls, {}), cls |-> r.cls],
                      [os |-> OutputStream(<<>>), map |-> r.map,
                       nf |-> (<<>> :> [cls |-> r.cls, column |-> 0])
                              @@ node_formatter,
                       calls |-> <<>>, err |-> FALSE])
           Done(s1) ==
               /\ Becomes(s1.os)
               /\ _map' = s1.map
               /\ node_formatter' = s1.nf
               /\ raised' = s1.err
               /\ format_calls' = s1.calls
               /\ first_pass' = IF passes = 0
                                THEN [ostream |-> s1.os.ostream,
                                      linebuffer |-> s1.os.linebuffer,
                                      raised |-> s1.err]
                                ELSE first_pass
       IN  Done(Formatted(lookup(_map, tree)))
    /\ passes' = passes + 1
    /\ UNCHANGED <<tree, written, nwrites, registered, looked, ncalls, objvars>>

NextFmt == FormatScript

SpecFmt == InitFmt /\ [][NextFmt]_vars

-----------------------------------------------------------------------------
(* A sink that fails: it accepts some number of writes and refuses the      *)
(* next.  OutputStream._write ends the process on a BrokenPipeError         *)
(* (sys.exit(1)) and lets any other exception leave the pass, so nothing    *)
(* of the pass runs after a failed write.                                   *)

MaxSinkCalls == 4
MaxSinkBudget == 5

InitSink ==
    /\ ostream = <<>>
    /\ _col = 0
    /\ _tab_indent = 0
    /\ _linebuffer = <<>>
    /\ _space_align = FALSE
    /\ sink_budget \in 0..MaxSinkBudget
    /\ sink_failed = FALSE
    /\ last_flush = NoFlush
    /\ written = <<>>
    /\ nwrites = 0
    /\ InitMap /\ InitNoTree /\ InitNoCall

(* OutputStream.write(data, formatter) of a pass that is still running.     *)
WriteToSink ==
    /\ ~sink_failed
    /\ nwrites < MaxSinkCalls
    /\ \E in \in LineInputs(nwrites + 1) :
          /\ Becomes(write(TheStream, in[1], in[2]))
          /\ written' = written \o in[1]
    /\ nwrites' = nwrites + 1
    /\ UNCHANGED <<mapvars, fmtvars, objvars>>

NextSink == WriteToSink

SpecSink == InitSink /\ [][NextSink]_vars
-----------------------------------------------------------------------------
(* Properties of the OutputStream, checked under Spec.                      *)

NonWs(d) == SelectSeq(d, LAMBDA c : ~IsSpace(c))

BufferedData == Flat([k \in 1..Len(_linebuffer) |-> _linebuffer[k].data])

Content(lb) == {i \in 1..Len(lb) : strip(lb[i].data) # <<>>}

(* The content chunk before content chunk i of the line, or 0.              *)
PrevContent(lb, i) ==
    LET before == {p \in Content(lb) : p < i}
    IN  IF before = {} THEN 0
        ELSE CHOOSE p \in before : \A q \in before : q <= p

(* Display columns of a physical line, a tab counted as TAB_SIZE columns.   *)
Width(d) ==
    Cardinality({k \in 1..Len(d) : d[k] \notin {"\t", "\n"}})
    + TAB_SIZE * Cardinality({k \in 1..Len(d) : d[k] = "\t"})

(* C2: the non-whitespace bytes reach the sink in the order in which they   *)
(* were handed to write(), each exactly once: what is in the sink, followed *)
(* by what is still buffered, is what was written, blanks aside.            *)
ContentOrderPreserved ==
    NonWs(ostream) \o NonWs(BufferedData) = NonWs(written)

(* A flush has inserted a break and discarded the blank chunk before it.    *)
BreakDroppedBlank ==
    \E i \in last_flush.breaks :
        i > 1 /\ strip(last_flush.line[i - 1].data) = <<>>

(* Chunks that hints forbid to separate by a break.                         *)
NeverBreakJoin(lb, a, b) ==
    NO_LB_AFTER \in lb[a].hints \/ NO_LB_BEFORE \in lb[b].hints

NeverBreakRun(lb, i, j) ==
    /\ i \in Content(lb) /\ j \in Content(lb) /\ i <= j
    /\ \A b \in Content(lb) :
          (i < b /\ b <= j) => NeverBreakJoin(lb, PrevContent(lb, b), b)

HasLongNeverBreakRun(lb) ==
    \E i, j \in 1..Len(lb) :
        /\ NeverBreakRun(lb, i, j)
        /\ Len(Flat([k \in 1..(j - i + 1) |-> lb[i + k - 1].data])) > MAX_LINE_LEN

(* C3: no physical line of a flushed logical line is wider than             *)
(* MAX_LINE_LEN display columns, unless the logical line holds fewer than   *)
(* MIN_LINE_ITEMS content chunks or a never-break run longer than the       *)
(* budget.  Stated for the logical lines none of whose chunks is advisory   *)
(* (GOOD_AFTER_LB) or zero-width, for which the code documents no further   *)
(* exception.                                                               *)
WidthBound ==
    LET lb == last_flush.line
        lines == splitlines(last_flush.out)
    IN  (\A i \in 1..Len(lb) :
            lb[i].hints \cap {GOOD_AFTER_LB, ZERO_WIDTH} = {})
        => \/ line_items(lb) < MIN_LINE_ITEMS
           \/ HasLongNeverBreakRun(lb)
           \/ \A k \in 1..Len(lines) : Width(lines[k]) <= MAX_LINE_LEN

(* C4: no physical line in the sink has a space or a tab directly before    *)
(* its line terminator.                                                     *)
NoTrailingWhitespace ==
    \A k \in 1..Len(ostream) :
        ostream[k] = "\n" => (k = 1 \/ ostream[k - 1] \notin {" ", "\t"})

(* C10: no flush writes a break directly before a chunk that carries        *)
(* NO_LB_BEFORE, nor between a chunk that carries NO_LB_AFTER and the next  *)
(* content chunk of the line.                                               *)
HardHintsHonoured ==
    LET lb == last_flush.line
    IN  \A i \in last_flush.breaks :
            /\ NO_LB_BEFORE \notin lb[i].hints
            /\ PrevContent(lb, i) # 0
               => NO_LB_AFTER \notin lb[PrevContent(lb, i)].hints

-----------------------------------------------------------------------------
(* Properties of the break decisions of one flush, checked under SpecLine.  *)

(* An advisory break is taken only on a line wider than MAX_LINE_LEN.       *)
AdvisoryOnlyWhenTooWide ==
    last_flush.hinted # {}
        => Width(Flat([k \in 1..Len(last_flush.line) |->
                          last_flush.line[k].data])) > MAX_LINE_LEN

(* No automatic break comes after an advisory one.                          *)
NoAutoAfterAdvisory ==
    \A h \in last_flush.hinted : \A a \in last_flush.auto : a < h

(* C11: within one flush a break at a GOOD_AFTER_LB chunk is taken only     *)
(* when the logical line is wider than MAX_LINE_LEN columns, and no         *)
(* automatic break is taken at a chunk after one where an advisory break    *)
(* was taken.                                                               *)
AdvisoryBreaks == AdvisoryOnlyWhenTooWide /\ NoAutoAfterAdvisory

(* The line with every ZERO_WIDTH chunk given len bytes, and the flush of   *)
(* that line.                                                               *)
Resized(lb, len) ==
    [k \in 1..Len(lb) |->
        IF ZERO_WIDTH \in lb[k].hints THEN Output(Comment(len), lb[k].hints)
        ELSE lb[k]]

FlushOf(lb, tab_indent) ==
    _flush_line([OutputStream(<<>>) EXCEPT
                    !.linebuffer = lb,
                    !.tab_indent = tab_indent,
                    !.col = Len(Flat([k \in 1..Len(lb) |-> lb[k].data]))]).flush

SameBreaks(f, g) ==
    f.breaks = g.breaks /\ f.auto = g.auto /\ f.hinted = g.hinted

(* C12: the breaks of a flushed line are the same whatever the length of    *)
(* its ZERO_WIDTH chunks.                                                   *)
ZeroWidthNeverInfluences ==
    \A len \in CommentLens :
        SameBreaks(FlushOf(Resized(last_flush.line, len), last_flush.tab_indent),
                   last_flush)

-----------------------------------------------------------------------------
(* Properties of Formatter._write_nl, checked under SpecNl.                 *)

(* C13: _write_nl called at column 0 without force writes no byte, neither  *)
(* to the sink nor to the line buffer; any other call completes the line:   *)
(* the sink grows and ends with the num terminators, nothing stays          *)
(* buffered.                                                                *)
WriteNlCollapses ==
    last_call.op = "_write_nl" =>
        IF last_call.col = 0 /\ ~last_call.force
        THEN ostream = last_call.ostream /\ _linebuffer = last_call.linebuffer
        ELSE /\ Len(ostream) >= Len(last_call.ostream) + last_call.num
             /\ SubSeq(ostream, 1, Len(last_call.ostream)) = last_call.ostream
             /\ SubSeq(ostream, Len(ostream) - last_call.num + 1, Len(ostream))
                   = Rep("\n", last_call.num)
             /\ _linebuffer = <<>>

(* An unforced line-break request has arrived directly after a completed    *)
(* line, and another one before it had completed that line.                 *)
BreakRequestedAfterCompletedLine ==
    /\ last_call.op = "_write_nl"
    /\ last_call.col = 0 /\ ~last_call.force
    /\ last_call.ostream # <<>>
    /\ last_call.ostream[Len(last_call.ostream)] = "\n"
    /\ ostream[Len(ostream)] = "\n"
    /\ Len(ostream) > 1 => ostream[Len(ostream) - 1] # "\n"

-----------------------------------------------------------------------------
(* Properties of the cursor and the lookaheads, checked under SpecCursor.   *)

Lookaheads ==
    {"_get_child", "_get_child_type", "_get_child_name", "_get_child_token",
     "_child_is_curly_stmt", "else_if"}

(* C14: no lookahead raises, and one that peeks at a position where no      *)
(* child is left answers None (the accessors) or false (the tests).         *)
LookaheadsTotal ==
    last_call.op \in Lookaheads =>
        /\ ~last_call.raised
        /\ last_call.pos >= Len(fnode.children) => last_call.result \in {None, "F"}

(* The accessors alone are total.                                           *)
AccessorsTotal ==
    last_call.op \in Lookaheads \ {"_child_is_curly_stmt", "else_if"} =>
        /\ ~last_call.raised
        /\ last_call.pos >= Len(fnode.children) => last_call.result = None

(* C17: the cursor starts at 0 and stays within 0..len(children); a call    *)
(* that consumes a child moves it on by exactly 1, a consuming call that    *)
(* finds no child left and every peek leave it where it was.                *)
CursorMonotonic ==
    /\ _cidx \in 0..Len(fnode.children)
    /\ last_call = NoCall => _cidx = 0
    /\ last_call.op \in {"_next_child", "_format_child"} =>
          _cidx = last_call.cidx + (IF last_call.result = "node" THEN 1 ELSE 0)
    /\ last_call.op \in Lookaheads \cup {"_children_remaining"} =>
          _cidx = last_call.cidx

(* _next_child has been called with every child consumed already.           *)
NextChildAtEnd ==
    /\ last_call.op = "_next_child"
    /\ last_call.result = None
    /\ last_call.cidx = Len(fnode.children)
    /\ Len(fnode.children) > 0

-----------------------------------------------------------------------------
(* Properties of a failing sink, checked under SpecSink.                    *)

IsPrefix(s, t) == Len(s) <= Len(t) /\ SubSeq(t, 1, Len(s)) = s

Min(a, b) == IF a <= b THEN a ELSE b

(* The writes the last flush would make to a sink that never fails.         *)
UnfailingAttempts == FlushOf(last_flush.line, last_flush.tab_indent).attempts

FailedFlushStops ==
    LET f == last_flush
        accepted == Min(f.budget, Len(f.attempts))
    IN  f.budget # Unlimited =>
            /\ Len(f.attempts) <= f.budget + 1
            /\ sink_failed <=> (Len(f.attempts) = f.budget + 1)
            /\ IsPrefix(f.attempts, UnfailingAttempts)
            /\ f.out = Flat(SubSeq(f.attempts, 1, accepted))

(* C15: a write the sink refuses is the last one the pass attempts: the     *)
(* flush makes the writes it would make to a working sink up to and         *)
(* including the refused one and none after it, the sink holds the data of  *)
(* the accepted writes only, and no operation of the pass runs afterwards.  *)
SinkFailureIsFatal == [](FailedFlushStops) /\ [][~sink_failed]_vars

(* A flush that had several writes left when the sink refused one.          *)
FailedInMidFlush ==
    /\ sink_failed
    /\ Len(last_flush.attempts) >= 2
    /\ Len(UnfailingAttempts) >= Len(last_flush.attempts) + 2
    /\ last_flush.breaks # {}

-----------------------------------------------------------------------------
(* Properties of the registry.                                              *)

(* The class whose name is derived from the kind, if the module has one.    *)
ConventionClasses(type) == {c \in ModuleClasses : ClassName[c] = derived(type)}

(* C8: Formatter.lookup gives the generic Formatter for every token node;   *)
(* for a named node it gives the explicitly registered class if there is    *)
(* one, else the class named after the kind if the module has one, else     *)
(* the generic Formatter.                                                   *)
LookupResolution ==
    looked.done =>
        looked.cls =
            IF ~looked.is_named THEN "Formatter"
            ELSE IF looked.type \in DOMAIN looked.registered
            THEN looked.registered[looked.type]
            ELSE IF ConventionClasses(looked.type) # {}
            THEN CHOOSE c \in ConventionClasses(looked.type) : TRUE
            ELSE "Formatter"

(* A named node of a kind without explicit mapping was resolved by its      *)
(* name, from the entry an earlier lookup had cached.                       *)
CachedConventionLookup ==
    /\ looked.done
    /\ looked.is_named
    /\ looked.type \notin DOMAIN looked.registered
    /\ looked.cached
    /\ looked.cls # "Formatter"

-----------------------------------------------------------------------------
(* Properties of a formatting pass.                                         *)

Out == ostream \o BufferedData

(* The bytes of the leaves of a tree in source order, comments and newlines *)
(* included.                                                                *)
RECURSIVE SourceBytes(_)
SourceBytes(node) ==
    IF node.children = <<>> THEN node.text
    ELSE LET cs == cst_children(node)
         IN  Flat([k \in 1..Len(cs) |-> SourceBytes(cs[k])])

(* C1: after a pass that ran to its end, the output without its whitespace  *)
(* is the sequence of the tree's leaf tokens in source order.               *)
TokenPreservation ==
    (passes > 0 /\ ~raised) => NonWs(Out) = NonWs(SourceBytes(tree))

IsBlank(line) == strip(line) = <<>>

(* The part of a line before its comment.                                   *)
CodeOf(line) ==
    LET hs == {i \in 1..Len(line) : line[i] = "#"}
    IN  IF hs = {} THEN line
        ELSE SubSeq(line, 1, (CHOOSE i \in hs : \A j \in hs : i <= j) - 1)

OpensBlock(line) ==
    LET c == rstrip(CodeOf(line)) IN c # <<>> /\ c[Len(c)] = "{"

ClosesBlock(line) ==
    LET c == lstrip(line) IN c # <<>> /\ c[1] = "}"

NoDoubleBlank ==
    LET ls == splitlines(Out)
    IN  \A i \in 1..(Len(ls) - 1) : ~(IsBlank(ls[i]) /\ IsBlank(ls[i + 1]))

NoBlankAfterOpen ==
    LET ls == splitlines(Out)
    IN  \A i \in 1..(Len(ls) - 1) : ~(OpensBlock(ls[i]) /\ IsBlank(ls[i + 1]))

NoBlankBeforeClose ==
    LET ls == splitlines(Out)
    IN  \A i \in 1..(Len(ls) - 1) : ~(IsBlank(ls[i]) /\ ClosesBlock(ls[i + 1]))

(* C5: the output has no two consecutive blank lines, no blank line         *)
(* directly after a line that opens a block and none directly before a      *)
(* line that closes one.                                                    *)
BlankLineBound == NoDoubleBlank /\ NoBlankAfterOpen /\ NoBlankBeforeClose

(* C7: a later pass over the same tree, started with the MAP entries and    *)
(* the formatter back-references the earlier passes left and with a fresh   *)
(* OutputStream, gives what the first pass gave.                            *)
Determinism ==
    passes >= 2 =>
        /\ ostream = first_pass.ostream
        /\ _linebuffer = first_pass.linebuffer
        /\ raised = first_pass.raised

(* A second pass has run over a tree with statements and expressions: MAP   *)
(* holds the classes the first pass found by name, and the nodes hold the   *)
(* formatters of an earlier pass.                                           *)
SecondPassWithLeftovers ==
    /\ passes = 2
    /\ {"stmt", "expr"} \subseteq DOMAIN _map
    /\ \E p \in DOMAIN node_formatter : node_formatter[p].cls = "ExprFormatter"
    /\ ostream # <<>>

(* A pass has run over a tree whose root gets the default rule (a token,    *)
(* or a node of a kind no class is mapped to) and has only leaves, of such  *)
(* kinds themselves, as children.                                           *)
GetsDefaultRule(node) == ~node.is_named \/ node.type \notin DOMAIN _map

DefaultRuleRoot ==
    /\ passes > 0
    /\ GetsDefaultRule(tree)
    /\ \A k \in 1..Len(tree.children) :
          /\ tree.children[k].children = <<>>
          /\ GetsDefaultRule(tree.children[k])
          /\ tree.children[k].prev_cst_siblings = <<>>
          /\ tree.children[k].next_cst_siblings = <<>>

ChildBytes == [k \in 1..Len(tree.children) |-> tree.children[k].text]

RECURSIVE Join(_, _)
Join(sep, chunks) ==
    IF Len(chunks) <= 1 THEN Flat(chunks)
    ELSE Head(chunks) \o sep \o Join(sep, Tail(chunks))

(* C9: the default rule writes a leaf as its source bytes and the children  *)
(* of a node in order, with nothing between two consecutive children.       *)
DefaultRuleConcatenates ==
    DefaultRuleRoot =>
        Out = IF tree.children = <<>> THEN tree.text ELSE Flat(ChildBytes)

(* C9 as stated: one space between two consecutive children.                *)
DefaultRuleSpaceJoins ==
    DefaultRuleRoot =>
        Out = IF tree.children = <<>> THEN tree.text ELSE Join(<<" ">>, ChildBytes)

(* The default rule has formatted a node with several children.             *)
DefaultRuleOnSeveralChildren ==
    DefaultRuleRoot /\ Len(tree.children) >= 2 /\ ~raised

-----------------------------------------------------------------------------
(* Properties of the calls a pass makes, checked under SpecFmt.             *)

(* The indent of the formatter constructed for the node at path.            *)
IndentAt(path) ==
    IF path = <<>> THEN 0
    ELSE LET made == {j \in 1..Len(format_calls) :
                        /\ format_calls[j].op = "_format_child_impl"
                        /\ format_calls[j].by = Front(path)
                        /\ format_calls[j].at = path[Len(path)]}
         IN  format_calls[CHOOSE j \in made : TRUE].indent

(* What the _format_child call format_calls[c] has to hand to               *)
(* _format_child_impl: the child's prev_cst_siblings, the child, its        *)
(* next_cst_siblings, by position among the parent's CST children.          *)
ExpectedImplCalls(c) ==
    LET call == format_calls[c]
        p == NodeAt(tree, call.by)
        node == p.children[call.at]
        i == cst_index(p, call.at)
        from == i - Len(node.prev_cst_siblings)
        n == Len(node.prev_cst_siblings) + 1 + Len(node.next_cst_siblings)
    IN  [j \in 1..n |->
            [op |-> "_format_child_impl", by |-> call.by, at |-> from + j - 1,
             hints |-> IF from + j - 1 = i THEN call.hints ELSE {},
             indent |-> IndentAt(call.by) + call.indent]]

(* The _format_child_impl calls made by the formatter of format_calls[c]    *)
(* after that call and before its next _format_child call.                  *)
ImplCallsOf(c) ==
    LET by == format_calls[c].by
        later == {j \in c + 1..Len(format_calls) :
                    format_calls[j].op = "_format_child" /\ format_calls[j].by = by}
        end == IF later = {} THEN Len(format_calls) + 1
               ELSE CHOOSE j \in later : \A k \in later : j <= k
        Mine(e) == e.op = "_format_child_impl" /\ e.by = by
    IN  SelectSeq(SubSeq(format_calls, c + 1, end - 1), Mine)

FormatChildCalls == {c \in 1..Len(format_calls) : format_calls[c].op = "_format_child"}

(* C16: every _format_child call formats the child's prev_cst_siblings in   *)
(* order, then the child, then its next_cst_siblings in order, all at one   *)
(* indent, the child with the hints of the call and the others with none    *)
(* (a pass that ends with an exception may stop part-way).                  *)
FormatChildOrder ==
    \A c \in FormatChildCalls :
        IF raised THEN IsPrefix(ImplCallsOf(c), ExpectedImplCalls(c))
        ELSE ImplCallsOf(c) = ExpectedImplCalls(c)

(* A pass has formatted, with hints and one level deeper resp., a child     *)
(* that has siblings attached before and after it.                          *)
FormatChildWithExtras ==
    /\ ~raised
    /\ \E c \in FormatChildCalls :
          /\ format_calls[c].hints # {}
          /\ Len(ExpectedImplCalls(c)) >= 4
    /\ \E c \in FormatChildCalls :
          /\ format_calls[c].indent = 1
          /\ Len(ExpectedImplCalls(c)) >= 4

-----------------------------------------------------------------------------
(* Properties of _format_child_range.                                       *)

(* Under SpecCursor: a call that does not raise consumes num children (none *)
(* for num <= 0); a call raises when fewer than num children are left.      *)
RangeConsumes ==
    last_call.op = "_format_child_range" =>
        LET num == IF last_call.pos > 0 THEN last_call.pos ELSE 0
        IN  /\ last_call.raised <=> (Len(fnode.children) - last_call.cidx < num)
            /\ ~last_call.raised => _cidx = last_call.cidx + num

RangeCalls ==
    {r \in 1..Len(format_calls) : format_calls[r].op = "_format_child_range"}

(* The _format_child calls of the _format_child_range call format_calls[r], *)
(* in order: the next num _format_child calls of the same formatter.        *)
RangeChildren(r) ==
    LET Mine(e) == e.op = "_format_child" /\ e.by = format_calls[r].by
        mine == SelectSeq(SubSeq(format_calls, r + 1, Len(format_calls)), Mine)
    IN  SubSeq(mine, 1, Min(format_calls[r].num, Len(mine)))

(* The output of the call starts at chunk buf + 1 of the line that the      *)
(* most recent flush has flushed.                                           *)
InLastFlush(call) ==
    /\ call.out = Len(ostream) - Len(last_flush.out)
    /\ call.buf < Len(last_flush.line)

(* C18: the flush writes no line break directly before the output of the    *)
(* second or a later child of a _format_child_range call.                   *)
RangeUnbroken ==
    \A r \in RangeCalls :
        LET kids == RangeChildren(r)
        IN  \A j \in 2..Len(kids) :
                InLastFlush(kids[j]) => kids[j].buf + 1 \notin last_flush.breaks

-----------------------------------------------------------------------------
(* Properties of the layout of controlled statements, checked under         *)
(* SpecFmt.                                                                 *)

(* The calls a format() method itself makes that write or format a child.   *)
MethodCalls(path) ==
    {j \in 1..Len(format_calls) :
        /\ format_calls[j].op \in {"_format_child", "_write_sp", "_write_nl"}
        /\ format_calls[j].by = path}

(* The call of the same method before resp. after call c (0: none).         *)
CallBefore(c) ==
    LET before == {j \in MethodCalls(format_calls[c].by) : j < c}
    IN  IF before = {} THEN 0 ELSE CHOOSE j \in before : \A k \in before : k <= j

CallAfter(c) ==
    LET after == {j \in MethodCalls(format_calls[c].by) : j > c}
    IN  IF after = {} THEN 0 ELSE CHOOSE j \in after : \A k \in after : j <= k

FirstTokenIs(node, toks) ==
    node.children # <<>> /\ token(node.children[1]) \in toks

(* The node that the _format_child call c formats, and the one before it.   *)
Formats(c) == NodeAt(tree, format_calls[c].by).children[format_calls[c].at]

FollowsToken(c, toks) ==
    LET p == NodeAt(tree, format_calls[c].by)
    IN  /\ format_calls[c].at >= 2
        /\ token(p.children[format_calls[c].at - 1]) \in toks

PrecedesToken(c, toks) ==
    LET p == NodeAt(tree, format_calls[c].by)
    IN  /\ format_calls[c].at < Len(p.children)
        /\ token(p.children[format_calls[c].at + 1]) \in toks

(* The _format_child calls for the statement that an if, for, while or when *)
(* controls, and those for the statement after an else.                     *)
StmtCalls(keywords, after) ==
    {c \in 1..Len(format_calls) :
        /\ format_calls[c].op = "_format_child"
        /\ name(NodeAt(tree, format_calls[c].by)) = "stmt"
        /\ FirstTokenIs(NodeAt(tree, format_calls[c].by), keywords)
        /\ FollowsToken(c, after)
        /\ name(Formats(c)) = "stmt"}

ControlledCalls == StmtCalls({"if", "for", "while", "when"}, {")"})
ElseCalls == StmtCalls({"if"}, {"else"})

(* One space and nothing else is written between the call before c and c.   *)
SpaceBefore(c) ==
    /\ CallBefore(c) # 0
    /\ format_calls[CallBefore(c)].op = "_write_sp"
    /\ format_calls[CallBefore(c)].col2 = format_calls[CallBefore(c)].col + 1
    /\ format_calls[c].col = format_calls[CallBefore(c)].col2

(* The call before c ended the line, and c starts on the next.              *)
BreakBefore(c) ==
    /\ CallBefore(c) # 0
    /\ format_calls[CallBefore(c)].op = "_write_nl"
    /\ format_calls[CallBefore(c)].col > 0
    /\ format_calls[CallBefore(c)].col2 = 0
    /\ format_calls[c].col = 0

(* The call after c is a _write_nl, which leaves the line ended.            *)
BreakAfter(c) ==
    /\ CallAfter(c) # 0
    /\ format_calls[CallAfter(c)].op = "_write_nl"
    /\ format_calls[CallAfter(c)].col2 = 0

NoBreakAfter(c) ==
    CallAfter(c) # 0 => format_calls[CallAfter(c)].op # "_write_nl"

(* The rule for a statement that starts with '{' and for one that does not. *)
CurlyRule(c) ==
    IF FirstTokenIs(Formats(c), {"{"})
    THEN /\ SpaceBefore(c)
         /\ format_calls[c].indent = 0
         /\ ~raised /\ ~PrecedesToken(c, {"else", "timeout"}) => BreakAfter(c)
    ELSE /\ BreakBefore(c)
         /\ format_calls[c].indent = 1
         /\ NoBreakAfter(c)

LaidOut(keyword, is_curly) ==
    \E c \in ControlledCalls :
        /\ FirstTokenIs(NodeAt(tree, format_calls[c].by), {keyword})
        /\ FirstTokenIs(Formats(c), {"{"}) = is_curly

PathOf(c) ==
    Append(format_calls[c].by,
           cst_index(NodeAt(tree, format_calls[c].by), format_calls[c].at))

-----------------------------------------------------------------------------
(* Properties of the breaks and of the column of the OutputStream, checked  *)
(* under Spec.                                                              *)

LineData(lb) == Flat([k \in 1..Len(lb) |-> lb[k].data])

(* What write_linebreak sends to the sink.                                  *)
BreakBytes(tab_indent) ==
    NL \o Rep("\t", tab_indent) \o Rep(" ", SPACE_INDENT)

(* Chunk i is blank and only blank chunks lie between it and a chunk that   *)
(* a break was written before.                                              *)
DroppedAt(lb, breaks, i) ==
    \E b \in breaks :
        i < b /\ \A k \in i..(b - 1) : strip(lb[k].data) = <<>>

(* The line with its breaks: every break chunk after the bytes of a break,  *)
(* the blank chunks before it left out.                                     *)
Rebuilt(f) ==
    Flat([i \in 1..Len(f.line) |->
            IF DroppedAt(f.line, f.breaks, i) THEN <<>>
            ELSE IF i \in f.breaks
                 THEN BreakBytes(f.tab_indent) \o f.line[i].data
                 ELSE f.line[i].data])

LastBreak(f) == CHOOSE b \in f.breaks : \A c \in f.breaks : c <= b

IsTabs(d) == d # <<>> /\ \A k \in 1..Len(d) : d[k] = "\t"

(* C25: every break of a flush is a line terminator, one tab per level of   *)
(* the line's indentation and SPACE_INDENT spaces, written directly before  *)
(* a non-blank chunk, the blank chunks pending before it being dropped;     *)
(* col_flushed restarts at the width of that indentation (TAB_SIZE per tab  *)
(* plus SPACE_INDENT).                                                      *)
BreakShape ==
    LET f == last_flush
    IN  /\ f.out = Rebuilt(f)
        /\ \A b \in f.breaks : strip(f.line[b].data) # <<>>
        /\ f.breaks # {} =>
              f.col_flushed = f.tab_indent * TAB_SIZE + SPACE_INDENT
                              + Len(LineData(SubSeq(f.line, LastBreak(f),
                                                    Len(f.line))))
        /\ (f.line # <<>> /\ IsTabs(f.line[1].data)) =>
              f.tab_indent = Len(f.line[1].data)

(* A flush of an indented line took a break and dropped a blank chunk.      *)
IndentedBreakDroppedBlank ==
    /\ last_flush.line # <<>>
    /\ IsTabs(last_flush.line[1].data)
    /\ \E b \in last_flush.breaks :
          b > 2 /\ DroppedAt(last_flush.line, last_flush.breaks, b - 1)

(* C26: get_column() is the number of display columns of what was written   *)
(* since the last line terminator (a tab counted as TAB_SIZE columns).      *)
ColumnIsDisplayWidth == get_column(TheStream) = Width(BufferedData)

(* C27: the flush of a line of at most MAX_LINE_LEN bytes, or of fewer than *)
(* MIN_LINE_ITEMS non-blank chunks none of which is GOOD_AFTER_LB, takes no *)
(* break: the sink receives the chunks of the line, in order, and nothing   *)
(* else.                                                                    *)
NoBreakWhenShortOrFew ==
    LET f == last_flush
        lb == f.line
    IN  (\/ Len(LineData(lb)) <= MAX_LINE_LEN
         \/ /\ Cardinality(Content(lb)) < MIN_LINE_ITEMS
            /\ \A i \in 1..Len(lb) : GOOD_AFTER_LB \notin lb[i].hints)
        => /\ f.breaks = {} /\ f.auto = {} /\ f.hinted = {}
           /\ f.out = LineData(lb)

(* A line wider than MAX_LINE_LEN, of few chunks some of which carry        *)
(* hints, was flushed as it is.                                             *)
WideLineOfFewChunks ==
    LET lb == last_flush.line
    IN  /\ Len(LineData(lb)) > MAX_LINE_LEN
        /\ Cardinality(Content(lb)) \in 3..(MIN_LINE_ITEMS - 1)
        /\ \A i \in 1..Len(lb) : GOOD_AFTER_LB \notin lb[i].hints
        /\ \E i \in 1..Len(lb) : lb[i].hints # {NONE}
        /\ last_flush.out = LineData(lb)

-----------------------------------------------------------------------------
(* Properties of the hints of binary expressions, checked under SpecFmt.    *)

BooleanOps == {"&&", "||"}
AdditionOps == {"+"}

(* The node is an expression of three children with one of ops in the       *)
(* middle.                                                                  *)
IsBinaryOf(node, ops) ==
    /\ name(node) = "expr"
    /\ Len(node.children) = 3
    /\ token(node.children[2]) \in ops

(* The expression at path and every expression above it, up to the first    *)
(* node that is no expression, is a binary expression of ops, and there is  *)
(* such a node.                                                             *)
RECURSIVE HomogeneousUp(_, _)
HomogeneousUp(path, ops) ==
    IF name(NodeAt(tree, path)) # "expr" THEN TRUE
    ELSE IF ~IsBinaryOf(NodeAt(tree, path), ops) THEN FALSE
    ELSE IF path = <<>> THEN FALSE
    ELSE HomogeneousUp(Front(path), ops)

(* The _format_child calls for the operator of a binary expression of ops.  *)
OperatorCalls(ops) ==
    {c \in FormatChildCalls :
        /\ IsBinaryOf(NodeAt(tree, format_calls[c].by), ops)
        /\ format_calls[c].at = 2}

HintedAsChain(ops) ==
    \A c \in OperatorCalls(ops) :
        format_calls[c].hints =
            IF HomogeneousUp(format_calls[c].by, ops) THEN {GOOD_AFTER_LB} ELSE {}

(* C21: the operator of a binary && / || expression (of a binary +          *)
(* expression) is formatted with GOOD_AFTER_LB exactly when the expression  *)
(* and every expression above it, up to the first node that is no           *)
(* expression, is a binary && / || expression (a binary + expression) and   *)
(* such a node exists; otherwise it is formatted without hints.             *)
ChainHints == HintedAsChain(BooleanOps) /\ HintedAsChain(AdditionOps)

(* A pass has formatted an operator with the hint and, below or above it,   *)
(* an operator of the other kind without.                                   *)
MixedChainFormatted ==
    /\ ~raised
    /\ \E c \in OperatorCalls(BooleanOps), d \in OperatorCalls(AdditionOps) :
          /\ format_calls[c].hints # format_calls[d].hints
          /\ \/ format_calls[c].by = Front(format_calls[d].by)
             \/ format_calls[d].by = Front(format_calls[c].by)

(* The chunks of the last flushed line that are an && operator.             *)
AndChunks(lb) == {i \in 1..Len(lb) : lb[i].data = <<"&", "&">>}

(* C22: a line that holds a top-level chain of && operands (every && with   *)
(* GOOD_AFTER_LB) is written with a break before every && when it is wider  *)
(* than MAX_LINE_LEN columns, each continuation line starting with the      *)
(* line's indentation, SPACE_INDENT spaces and the &&; a line within        *)
(* MAX_LINE_LEN columns is written without a break.                         *)
ChainWrapped ==
    LET f == last_flush
        ops == AndChunks(f.line)
    IN  (ops # {} /\ \A i \in ops : GOOD_AFTER_LB \in f.line[i].hints)
        => /\ f.breaks = IF Width(LineData(f.line)) > MAX_LINE_LEN
                         THEN ops ELSE {}
           /\ f.out = Rebuilt(f)
-----------------------------------------------------------------------------
(* Runs of ##< comments.                                                    *)

(* The paths of the ##< comments a pass has formatted.                      *)
PrevCommentPaths ==
    {p \in DOMAIN node_formatter :
        p # <<>> /\ is_zeekygen_prev_comment(NodeAt(tree, p))}

Siblings(p) == cst_children(NodeAt(tree, Front(p)))

(* The path of the node a ##< comment looks back to: its nearest earlier    *)
(* sibling that is no newline, as zero or one paths.                        *)
LooksBackTo(p) ==
    LET pnode == find_prev_cst_sibling(Siblings(p), p[Len(p)])
    IN  IF pnode = 0 THEN <<>> ELSE <<Append(Front(p), pnode)>>

(* The comments of a run behind its first.                                  *)
Followers ==
    {p \in PrevCommentPaths :
        /\ LooksBackTo(p) # <<>>
        /\ is_zeekygen_prev_comment(NodeAt(tree, LooksBackTo(p)[1]))}

(* The columns, counted in bytes from the start of the line, at which a     *)
(* ##< comment starts in the output.                                        *)
StartsIn(line) ==
    {i - 1 : i \in {j \in 1..(Len(line) - 2) :
                       SubSeq(line, j, j + 2) = <<"#", "#", "<">>}}
StartColumns ==
    LET ls == splitlines(Out) IN UNION {StartsIn(ls[k]) : k \in 1..Len(ls)}

(* C23: after a pass over a tree with one run of ##< comments, every        *)
(* comment behind the first has recorded the column the comment it looks    *)
(* back to has recorded, and all the comments start at one column of the    *)
(* output.                                                                  *)
PrevCommentsAligned ==
    (passes > 0 /\ ~raised) =>
        /\ \A p \in Followers :
              node_formatter[p].column = node_formatter[LooksBackTo(p)[1]].column
        /\ Cardinality(StartColumns) <= 1
-----------------------------------------------------------------------------
(* Runs of newline nodes.                                                   *)

(* The paths of the formatted nodes that have children.                     *)
FormattedParents ==
    {p \in DOMAIN node_formatter : NodeAt(tree, p).children # <<>>}

(* The maximal runs of newline nodes among the CST children of the node at  *)
(* path p, each as its first and last position.                             *)
MaximalNlRuns(p) ==
    LET sibs == cst_children(NodeAt(tree, p))
    IN  {r \in (1..Len(sibs)) \X (1..Len(sibs)) :
            /\ r[1] <= r[2]
            /\ \A k \in r[1]..r[2] : is_nl(sibs[k])
            /\ r[1] > 1 => ~is_nl(sibs[r[1] - 1])
            /\ r[2] < Len(sibs) => ~is_nl(sibs[r[2] + 1])}

(* The run r has no sibling before it or after it, follows '{' or precedes  *)
(* '}'.                                                                     *)
AtEdge(p, r) ==
    LET sibs == cst_children(NodeAt(tree, p))
    IN  \/ r[1] = 1
        \/ r[2] = Len(sibs)
        \/ token(sibs[r[1] - 1]) = "{"
        \/ token(sibs[r[2] + 1]) = "}"

(* The _write_nl calls of the NlFormatter instances of the run r.           *)
ForcedBreaks(p, r) ==
    {c \in 1..Len(format_calls) :
        /\ format_calls[c].op = "_write_nl"
        /\ format_calls[c].by \in {Append(p, k) : k \in r[1]..r[2]}}

(* The last node of the run r has been formatted.                           *)
Visited(p, r) == Append(p, r[2]) \in DOMAIN node_formatter

(* C24: after a pass, the newline nodes of a maximal run have together made *)
(* at most one forced _write_nl; none when the run is at an edge or is a    *)
(* single node; and for a visited run of three or more nodes that is not at *)
(* an edge the one break was made at column 0, so that it is one blank      *)
(* line of the output.                                                      *)
NlRunBreaks ==
    (passes > 0 /\ ~raised) =>
        \A p \in FormattedParents : \A r \in MaximalNlRuns(p) :
            /\ Cardinality(ForcedBreaks(p, r)) <= 1
            /\ (AtEdge(p, r) \/ r[1] = r[2]) => ForcedBreaks(p, r) = {}
            /\ (r[2] - r[1] >= 2 /\ ~AtEdge(p, r) /\ Visited(p, r)) =>
                  \E c \in ForcedBreaks(p, r) :
                      format_calls[c].col = 0 /\ format_calls[c].col2 = 0

====
